---- MODULE Spec2Model ----
(***************************************************************************)
(* TLA+ model of the TensorFlix validator core (tensorflix/validator.py,  *)
(* tensorflix/protocol.py, tensorflix/models/brief.py,                    *)
(* tensorflix/db/brief_ops.py).                                           *)
(*                                                                         *)
(* Numbers.  Python floats are modelled exactly: ai scores are counted in *)
(* tenths (0.3 is 3), scores and rates are rationals [n, d] kept in       *)
(* lowest terms, times are ticks of 20 minutes (set_weights_interval),     *)
(* interval keys are the minute bucket numbered by the clock.              *)
(***************************************************************************)
EXTENDS Integers, Sequences, FiniteSets, TLC

VARIABLES
    ema,                \* Performance.get_score: the series and the loop's locals
    parse,              \* BriefCommitMessage.parse: the commit message and the result
    fan,                \* the tasks of the two gathers and the values of the two semaphores
    metagraph,          \* self.metagraph: [hotkeys, S, validator_permit], 1-based (uid = index - 1)
    env,                \* what the external services can answer in this run
    submissions,        \* collection submissions-<version>: sequence of documents
    performances,       \* collection performances-<version>: set of documents
    briefs,             \* collection briefs
    brief_submissions,  \* collection brief_submissions
    pc,                 \* position of the reconcile loop of run()
    clock,              \* datetime.utcnow(), in ticks
    interval_key,       \* interval_key of update_performance_metrics
    active_content_ids, \* self._active_content_ids
    peers,              \* peers of update_all_submissions still to refresh
    work,               \* submissions of update_performance_metrics still to process
    warm_up,            \* warm_up of run()
    publish_tasks,      \* number of _periodical_task tasks created
    lastRefresh,        \* the last _refresh_peer_submissions call and what it saw
    lastMetric,         \* the last _update_hotkey_performances step and what it saw
    aiCalls,            \* number of POSTs to the AI detector per (hotkey, content_id)
    iteration,          \* the current or last pass of the "while True" of run()
    snapshot,           \* the store as the last completed iteration left it
    ppc,                \* position of calculate_and_set_weights
    cyc,                \* locals of the running calculate_and_set_weights call
    set_weights_calls,  \* number of subtensor.set_weights calls so far
    cycles,             \* number of calculate_and_set_weights calls begun
    chain_weights       \* the (uids, weights) last passed to subtensor.set_weights

emaVars   == <<ema>>
envVars   == <<metagraph, env>>
storeVars == <<submissions, performances, briefs, brief_submissions>>
reconVars == <<pc, clock, interval_key, active_content_ids, peers, work, warm_up,
               publish_tasks, lastRefresh, lastMetric, aiCalls, iteration, snapshot>>
pubVars   == <<ppc, cyc, set_weights_calls, chain_weights, cycles>>
pubVars_but_ppc == <<cyc, set_weights_calls, chain_weights, cycles>>
vars      == <<ema, parse, fan, metagraph, env, submissions, performances, briefs, brief_submissions,
               pc, clock, interval_key, active_content_ids, peers, work, warm_up,
               publish_tasks, lastRefresh, lastMetric, aiCalls, iteration, snapshot,
               ppc, cyc, set_weights_calls, chain_weights, cycles>>

(***************************************************************************)
(* Bounds of the model                                                     *)
(***************************************************************************)
\* longest Performance series get_score is run on
MaxIntervals == 3
\* reconcile iterations of run() that are explored
MaxIter == 2
\* publish cycles of _periodical_task that are explored
MaxCycles == 2
\* lines of a gist
MaxLines == 2
\* ':'-separated tokens of a commit message
MaxTokens == 4
\* longest Performance series the engagement rates are computed from
MaxSeries == 2
\* peers of one update_all_submissions call
MaxPeers == 34
\* hotkeys of one update_performance_metrics call
MaxFetchTasks == 6

(***************************************************************************)
(* Configuration (tensorflix/config.py)                                    *)
(***************************************************************************)
allowed_platforms == {"youtube/video"}
\* ai_generated_score_threshold = 0.3, in tenths
ai_generated_score_threshold == 3
max_int_weight == 65535
\* alpha = 0.95 = AlphaNum / AlphaDen
AlphaNum == 19
AlphaDen == 20
\* set_weights_interval = 20 minutes is the tick; an hour is 3 ticks
set_weights_interval == 1
TicksPerHour == 3
\* submission_update_interval = 2 hours
submission_update_interval == 6
\* sem = asyncio.Semaphore(32) of update_all_submissions
peer_semaphore == 32
\* self._fetch_metrics_semaphore = asyncio.Semaphore(4)
fetch_metrics_semaphore == 4

\* the signature ends with hotkey[-5:]; the hotkeys of the model differ in their
\* last five characters
get_signature_post(hotkey) == <<"Made with @infinitevibe.ai on #bittensor ---", hotkey>>

(***************************************************************************)
(* Rationals                                                               *)
(***************************************************************************)
RECURSIVE GCD(_, _)
GCD(a, b) == IF b = 0 THEN a ELSE GCD(b, a % b)

Abs(x) == IF x < 0 THEN -x ELSE x

Rat(n, d) ==
    LET g == GCD(Abs(n), d)
    IN  IF n = 0 THEN [n |-> 0, d |-> 1] ELSE [n |-> n \div g, d |-> d \div g]

Zero == [n |-> 0, d |-> 1]
RInt(i) == [n |-> i, d |-> 1]
RAdd(a, b) == Rat(a.n * b.d + b.n * a.d, a.d * b.d)
RMul(a, b) == Rat(a.n * b.n, a.d * b.d)
RDiv(a, b) == Rat(a.n * b.d, a.d * b.n)
RLeq(a, b) == a.n * b.d <= b.n * a.d
RLess(a, b) == a.n * b.d < b.n * a.d

(***************************************************************************)
(* Metrics (services/platform_tracker/data_types.py)                       *)
(***************************************************************************)
\* A metric: the fields of YoutubeVideoMetadata / InstagramPostMetadata the core
\* reads. caption is the signature the caption contains (or "none").
Metric(platform, caption, ai, views, likes, comments, followers) ==
    [platform_name |-> platform, caption |-> caption, ai_score |-> ai,
     views |-> views, like_count |-> likes, comment_count |-> comments,
     owner_follower_count |-> followers]

to_scalar(metric) == metric.views

check_signature(metric, hotkey) == metric.caption = get_signature_post(hotkey)

NoSignature == <<"no signature">>

(***************************************************************************)
(* Performance.get_score (tensorflix/protocol.py)                          *)
(***************************************************************************)
RECURSIVE SortedKeys(_)
\* sorted(self.platform_metrics_by_interval): the keys in ascending order
SortedKeys(S) ==
    IF S = {} THEN <<>>
    ELSE LET m == CHOOSE x \in S : \A y \in S : x <= y
         IN  <<m>> \o SortedKeys(S \ {m})

\* score = x * alpha + score * (1 - alpha)
EmaBlend(x, score) ==
    RAdd(RMul(RInt(x), Rat(AlphaNum, AlphaDen)),
         RMul(score, Rat(AlphaDen - AlphaNum, AlphaDen)))

\* the locals of get_score before the loop
EmaStart == [score |-> Zero, has_prev |-> FALSE, prev |-> 0]

\* the update of the first valid interval of a chain, dropped: the baseline is
\* recorded and the score is left alone
FirstValidKeepsScore(st, metric) ==
    [score |-> st.score, has_prev |-> TRUE, prev |-> to_scalar(metric)]

\* the else branch "First valid metric - initializing EMA"
FirstValid(st, metric) ==
    [score |-> EmaBlend(to_scalar(metric), st.score),
     has_prev |-> TRUE, prev |-> to_scalar(metric)]

\* the branch "if prev_metric_value is not None"
NextValid(st, metric) ==
    [score |-> EmaBlend(to_scalar(metric) - st.prev, st.score),
     has_prev |-> TRUE, prev |-> to_scalar(metric)]

\* the reset that forgets the score and keeps the baseline
EmaVisitKeepsBaseline(st, metric, hotkey) ==
    IF metric.platform_name \notin allowed_platforms THEN st
    ELSE IF check_signature(metric, hotkey)
            /\ metric.ai_score > ai_generated_score_threshold
         THEN IF st.has_prev THEN NextValid(st, metric) ELSE FirstValid(st, metric)
         ELSE [st EXCEPT !.score = Zero]

\* one pass of the loop body of get_score over one interval
EmaVisit(st, metric, hotkey) ==
    IF metric.platform_name \notin allowed_platforms THEN st
    ELSE IF check_signature(metric, hotkey)
            /\ metric.ai_score > ai_generated_score_threshold
         THEN IF st.has_prev THEN NextValid(st, metric) ELSE FirstValid(st, metric)
         ELSE EmaStart

RECURSIVE EmaFold(_, _, _, _)
EmaFold(st, series, keys, hotkey) ==
    IF keys = <<>> THEN st
    ELSE EmaFold(EmaVisit(st, series[Head(keys)], hotkey), series, Tail(keys), hotkey)

\* Performance.get_score as a function of the performance document
get_score(perf) ==
    EmaFold(EmaStart, perf.platform_metrics_by_interval,
            SortedKeys(DOMAIN perf.platform_metrics_by_interval), perf.hotkey).score

\* The recurrence the specification states (4.5.1): as EmaVisit, but the first
\* valid interval of a chain only records the baseline.
ChainResetVisit(st, metric, hotkey) ==
    IF metric.platform_name \notin allowed_platforms THEN st
    ELSE IF check_signature(metric, hotkey)
            /\ metric.ai_score > ai_generated_score_threshold
         THEN IF st.has_prev THEN NextValid(st, metric)
              ELSE FirstValidKeepsScore(st, metric)
         ELSE EmaStart

RECURSIVE ChainResetFold(_, _, _, _)
ChainResetFold(st, series, keys, hotkey) ==
    IF keys = <<>> THEN st
    ELSE ChainResetFold(ChainResetVisit(st, series[Head(keys)], hotkey),
                        series, Tail(keys), hotkey)

ChainResetScore(series, hotkey) ==
    ChainResetFold(EmaStart, series, SortedKeys(DOMAIN series), hotkey).score

(***************************************************************************)
(* Hotkeys, contents                                                       *)
(***************************************************************************)
Hotkeys == {"h1", "h2", "h3", "h4", "h5", "h6"}
Contents == {"c1", "c2"}

\* the metrics a get_score series is drawn from
EmaMetrics ==
    { Metric(p, c, a, v, 0, 0, 0) :
        p \in {"youtube/video", "instagram/reel"},
        c \in {get_signature_post("h1"), NoSignature},
        a \in {ai_generated_score_threshold, 9},
        v \in {1000, 1400} }

SeqsUpTo(S, n) == UNION { [1..k -> S] : k \in 0..n }

(***************************************************************************)
(* Commitments (validator._peer_metadata, models/brief.py)                 *)
(***************************************************************************)
\* A commitment string is modelled by its ':'-separated tokens: <<"alice", "abcd">>
\* is "alice:abcd", <<"x">> is a string without ':', and the absent or empty
\* commitment is <<>>.
HasColon(commit) == Len(commit) >= 2

\* split(':') without the limit of two splits
SplitEvery(commit) ==
    IF Len(commit) = 3 THEN <<commit[1], commit[2], <<commit[3]>>>> ELSE commit

\* commit_message.strip().split(':', 2): at most three parts, the third one the
\* whole rest of the string (its further ':' kept, as the sequence of its tokens)
SplitTwo(commit) ==
    IF Len(commit) <= 2 THEN commit
    ELSE <<commit[1], commit[2], SubSeq(commit, 3, Len(commit))>>

NoBriefCommit == [is_brief |-> FALSE, brief_id |-> "", submission_type |-> "", r2_link |-> <<>>]

\* BriefCommitMessage.parse
BriefCommitMessage_parse(commit) ==
    LET parts == SplitTwo(commit)
    IN  IF Len(parts) # 3 THEN NoBriefCommit
        ELSE IF parts[2] \notin {"sub_1", "sub_2"} THEN NoBriefCommit
        ELSE [is_brief |-> TRUE, brief_id |-> parts[1], submission_type |-> parts[2],
              r2_link |-> parts[3]]

\* PeerMetadata.brief_commit, as validator.py and demo_week2_implementation.py use it
brief_commit(peer) == BriefCommitMessage_parse(peer.commit)

\* self._uid_of_hotkey as run() rebuilds it from the metagraph
uid_of_hotkey(mg) == [i \in 1..Len(mg.hotkeys) |-> i - 1]

HotkeysOf(mg) == { mg.hotkeys[i] : i \in 1..Len(mg.hotkeys) }

UidOf(mg, hk) == (CHOOSE i \in 1..Len(mg.hotkeys) : mg.hotkeys[i] = hk) - 1

\* _peer_metadata: the peers of the commitments map that are in the metagraph and
\* whose commitment holds a ':'
peer_metadata(mg, commitments) ==
    { [uid |-> UidOf(mg, hk), hotkey |-> hk, commit |-> commitments[hk]] :
        hk \in { h \in DOMAIN commitments :
                    h \in HotkeysOf(mg) /\ HasColon(commitments[h]) } }

(***************************************************************************)
(* Gists and submissions (protocol.py)                                     *)
(***************************************************************************)
\* A Submission; direct_video_url and the two unused flags are left out.
Submission(content_id, platform, checked) ==
    [content_id |-> content_id, platform |-> platform, checked_for_ai |-> checked]

\* the platforms Submission.platform accepts
SubmissionPlatforms == {"youtube/video", "instagram/reel", "instagram/post"}

\* A line of a gist: a JSON record, or text that is no JSON record (json = FALSE).
GistLine(content_id, platform, checked) ==
    [json |-> TRUE, content_id |-> content_id, platform |-> platform,
     checked_for_ai |-> checked]
MalformedLine == [json |-> FALSE, content_id |-> "", platform |-> "", checked_for_ai |-> FALSE]

\* Submission.model_validate_json(line) succeeds
LineValidates(line) == line.json /\ line.platform \in SubmissionPlatforms

\* new_subs stays as it is after a line: the loop's two "continue"
KeepsLine(line) == LineValidates(line) /\ line.platform \in allowed_platforms

RECURSIVE ParseLines(_)
\* the loop of update_submissions over r.text.splitlines()
ParseLines(lines) ==
    IF lines = <<>> THEN <<>>
    ELSE LET line == Head(lines)
         IN  IF KeepsLine(line)
             THEN <<Submission(line.content_id, line.platform, line.checked_for_ai)>>
                  \o ParseLines(Tail(lines))
             ELSE ParseLines(Tail(lines))

\* PeerMetadata.update_submissions: the peer's submissions after the call, given
\* the answer of the gist request
update_submissions(response) ==
    IF response.ok THEN ParseLines(response.lines) ELSE <<>>

(***************************************************************************)
(* The submissions collection (Mongo operations of validator.py)           *)
(***************************************************************************)
\* A document of the collection; fields is the set of its fields besides _id
\* and hotkey.
PeerDoc(hotkey, subs) ==
    [hotkey |-> hotkey, fields |-> {"submissions"}, submissions |-> subs,
     content_id |-> "", checked_for_ai |-> FALSE]
FlagDoc(hotkey, content_id) ==
    [hotkey |-> hotkey, fields |-> {"content_id", "checked_for_ai"}, submissions |-> <<>>,
     content_id |-> content_id, checked_for_ai |-> TRUE]

\* the positions of the documents of a hotkey
OfHotkey(coll, hotkey) == { i \in 1..Len(coll) : coll[i].hotkey = hotkey }
First(I) == CHOOSE i \in I : \A j \in I : i <= j

\* delete_many({"hotkey": hotkey})
delete_many_hotkey(coll, hotkey) ==
    LET Keep(doc) == doc.hotkey # hotkey IN SelectSeq(coll, Keep)

\* an insert_one in place of the upsert
InsertSubmissions(coll, hotkey, subs) == Append(coll, PeerDoc(hotkey, subs))

\* update_one({"hotkey": hotkey}, {"$set": {"submissions": subs}}, upsert=True)
set_submissions(coll, hotkey, subs) ==
    LET I == OfHotkey(coll, hotkey)
    IN  IF I = {} THEN Append(coll, PeerDoc(hotkey, subs))
        ELSE [coll EXCEPT ![First(I)] =
                [@ EXCEPT !.fields = @ \cup {"submissions"}, !.submissions = subs]]

\* update_one({"hotkey": hotkey, "content_id": content_id},
\*            {"$set": {"checked_for_ai": True}}, upsert=True)
set_checked_for_ai(coll, hotkey, content_id) ==
    LET I == { i \in OfHotkey(coll, hotkey) :
                  "content_id" \in coll[i].fields /\ coll[i].content_id = content_id }
    IN  IF I = {} THEN Append(coll, FlagDoc(hotkey, content_id))
        ELSE [coll EXCEPT ![First(I)] =
                [@ EXCEPT !.fields = @ \cup {"checked_for_ai"}, !.checked_for_ai = TRUE]]

ContentIds(subs) == { subs[i].content_id : i \in 1..Len(subs) }

\* find({"submissions.content_id": {"$in": ids}})
find_touching(coll, ids) ==
    LET Keep(doc) == "submissions" \in doc.fields /\ ContentIds(doc.submissions) \cap ids # {}
    IN  SelectSeq(coll, Keep)

\* the submissions list a reader finds for a hotkey: the list of the first
\* document of the hotkey, empty when there is none
PersistedSubs(coll, hotkey) ==
    LET I == OfHotkey(coll, hotkey)
    IN  IF I = {} THEN <<>> ELSE coll[First(I)].submissions

(***************************************************************************)
(* Briefs (models/brief.py, db/brief_ops.py)                               *)
(***************************************************************************)
Brief(brief_id, status, created_at, top_10, final_3) ==
    [brief_id |-> brief_id, status |-> status, created_at |-> created_at,
     deadline_24hr |-> created_at + 24 * TicksPerHour,
     top_10_miners |-> top_10, final_3_miners |-> final_3]

\* Brief.is_active
is_active(brief, now) == brief.status = "active" /\ now < brief.deadline_24hr

\* Brief.can_submit_revision
can_submit_revision(brief, miner_hotkey) ==
    miner_hotkey \in brief.top_10_miners /\ brief.status = "selecting_top10"

\* quality_score: Optional[float] = None; a score is in tenths (0 .. 10)
NoQuality == -1

\* a BriefSubmission as _process_brief_submission builds it: no quality_score
BriefSubmission(brief_id, miner_hotkey, submission_type, r2_link, status, submitted_at) ==
    [brief_id |-> brief_id, miner_hotkey |-> miner_hotkey,
     submission_type |-> submission_type, r2_link |-> r2_link,
     validation_status |-> status, submitted_at |-> submitted_at,
     quality_score |-> NoQuality]

\* the find_one for an existing submission left out
CreateAlways(coll, sub) == coll \cup {sub}

\* BriefDatabase.create_submission: the collection after the call
create_submission(coll, sub) ==
    IF \E e \in coll : /\ e.brief_id = sub.brief_id
                       /\ e.miner_hotkey = sub.miner_hotkey
                       /\ e.submission_type = sub.submission_type
    THEN coll
    ELSE coll \cup {sub}

\* BriefDatabase.get_brief_submissions(brief_id)
get_brief_submissions(coll, brief_id) == { e \in coll : e.brief_id = brief_id }

\* _process_brief_submission: the brief_submissions collection after the call;
\* r2 is the outcome of the R2 validation ("pending" without an R2 client)
process_brief_submission(coll, brief_coll, peer, r2, now) ==
    LET bc == brief_commit(peer)
        found == { b \in brief_coll : b.brief_id = bc.brief_id }
    IN  IF found = {} THEN coll
        ELSE LET brief == CHOOSE b \in found : TRUE
             IN  IF ~is_active(brief, now) THEN coll
                 ELSE IF bc.submission_type = "sub_2"
                         /\ ~can_submit_revision(brief, peer.hotkey)
                      THEN coll
                      ELSE create_submission(coll,
                              BriefSubmission(bc.brief_id, peer.hotkey, bc.submission_type,
                                              bc.r2_link, r2, now))

(***************************************************************************)
(* The performances collection                                             *)
(***************************************************************************)
Performance(hotkey, content_id, series) ==
    [hotkey |-> hotkey, content_id |-> content_id, platform_metrics_by_interval |-> series]

\* find_one({"hotkey": hotkey, "content_id": content_id}), or the fresh
\* Performance with no interval
find_performance(coll, hotkey, content_id) ==
    LET found == { d \in coll : d.hotkey = hotkey /\ d.content_id = content_id }
    IN  IF found = {} THEN Performance(hotkey, content_id, <<>>)
        ELSE CHOOSE d \in found : TRUE

\* the series with every interval but the new one dropped
OnlyInterval(series, key, metric) == [k \in {key} |-> metric]

\* perf.platform_metrics_by_interval[interval_key] = metric
WithInterval(series, key, metric) ==
    [k \in DOMAIN series \cup {key} |-> IF k = key THEN metric ELSE series[k]]

\* update_one({"hotkey": .., "content_id": ..}, {"$set": perf.model_dump()}, upsert=True)
upsert_performance(coll, perf) ==
    LET found == { d \in coll : d.hotkey = perf.hotkey /\ d.content_id = perf.content_id }
    IN  IF found = {} THEN coll \cup {perf}
        ELSE (coll \ {CHOOSE d \in found : TRUE}) \cup {perf}

\* platform_name of the metric class _fetch_metrics builds for a submission
FetchedPlatformName(platform) ==
    IF platform = "youtube/video" THEN "youtube/video" ELSE "instagram/reel"

\* the metric _fetch_metrics returns for an answer of the platform tracker
fetch_metrics(sub, hotkey, answer) ==
    Metric(FetchedPlatformName(sub.platform),
           IF answer.signed THEN get_signature_post(hotkey) ELSE NoSignature,
           0, answer.views, answer.likes, answer.comments, answer.followers)

\* cap on the submissions of a hotkey processed in one iteration
max_submissions_per_hotkey == 10

Truncate(seq, n) == IF Len(seq) <= n THEN seq ELSE SubSeq(seq, 1, n)

RECURSIVE GroupedSubs(_, _)
\* grouped[doc["hotkey"]].extend(...) over the documents found, for one hotkey
GroupedSubs(docs, hotkey) ==
    IF docs = <<>> THEN <<>>
    ELSE (IF Head(docs).hotkey = hotkey THEN Head(docs).submissions ELSE <<>>)
         \o GroupedSubs(Tail(docs), hotkey)

\* grouped of update_performance_metrics, each list cut as
\* _update_hotkey_performances cuts it
grouped(coll, ids) ==
    LET docs == find_touching(coll, ids)
        hks == { docs[i].hotkey : i \in 1..Len(docs) }
    IN  [hk \in hks |-> Truncate(GroupedSubs(docs, hk), max_submissions_per_hotkey)]

(***************************************************************************)
(* Scores (validator.py, models/brief.py)                                  *)
(***************************************************************************)
RECURSIVE SumOver(_, _)
\* the sum of the rationals f[x], x in S
SumOver(S, f) ==
    IF S = {} THEN Zero
    ELSE LET x == CHOOSE y \in S : TRUE IN RAdd(f[x], SumOver(S \ {x}, f))

\* _get_active_miners: hotkeys with a non-empty persisted submission list or a
\* valid brief submission of the last 7 days, that are in the metagraph
get_active_miners(subs_coll, bsubs, mg, now) ==
    LET traditional == { subs_coll[i].hotkey :
                            i \in { j \in 1..Len(subs_coll) :
                                      /\ "submissions" \in subs_coll[j].fields
                                      /\ subs_coll[j].submissions # <<>> } }
        recent == { e \in bsubs : /\ e.submitted_at >= now - 7 * 24 * TicksPerHour
                                  /\ e.validation_status = "valid" }
    IN  (traditional \cup { e.miner_hotkey : e \in recent }) \cap HotkeysOf(mg)

\* active_hotkeys of _calculate_miner_engagement_rates
active_hotkeys(mg) ==
    { mg.hotkeys[i] : i \in { j \in 1..Len(mg.hotkeys) :
                                 mg.S[j] > 0 /\ ~mg.validator_permit[j] } }

\* latest_metric.owner_follower_count when the metric has the attribute and it
\* is positive, else 0
owner_follower_count(metric) == metric.owner_follower_count

\* the metric of the greatest interval key of a Performance
latest_metric(perf) ==
    LET keys == DOMAIN perf.platform_metrics_by_interval
    IN  perf.platform_metrics_by_interval[CHOOSE k \in keys : \A j \in keys : j <= k]

RECURSIVE PerfDocsFrom(_, _)
PerfDocsFrom(S, order) ==
    IF order = <<>> THEN <<>>
    ELSE LET here == { d \in S : d.content_id = Head(order) }
         IN  (IF here = {} THEN <<>> ELSE <<CHOOSE d \in here : TRUE>>)
             \o PerfDocsFrom(S, Tail(order))

\* the documents find({"hotkey": hotkey}) returns: one per content id, in the
\* order the contents were first stored
PerfDocs(S) == PerfDocsFrom(S, <<"c1", "c2">>)

\* the locals of the loop "for doc in perf_docs" before it starts
EngagementStart == [likes |-> 0, comments |-> 0, follower_count |-> 0, valid_posts |-> 0]

\* the check of the latest metric left out: every latest metric is counted
EngagementVisitCountsAll(acc, perf, hotkey) ==
    IF DOMAIN perf.platform_metrics_by_interval = {} THEN acc
    ELSE LET latest == latest_metric(perf)
             fc == IF owner_follower_count(latest) > 0 THEN owner_follower_count(latest)
                   ELSE acc.follower_count
         IN  [likes |-> acc.likes + latest.like_count,
              comments |-> acc.comments + latest.comment_count,
              follower_count |-> fc, valid_posts |-> acc.valid_posts + 1]

\* one pass of the loop "for doc in perf_docs"
EngagementVisit(acc, perf, hotkey) ==
    IF DOMAIN perf.platform_metrics_by_interval = {} THEN acc
    ELSE LET latest == latest_metric(perf)
             fc == IF owner_follower_count(latest) > 0 THEN owner_follower_count(latest)
                   ELSE acc.follower_count
         IN  IF check_signature(latest, hotkey)
                /\ latest.ai_score > ai_generated_score_threshold
             THEN [likes |-> acc.likes + latest.like_count,
                   comments |-> acc.comments + latest.comment_count,
                   follower_count |-> fc, valid_posts |-> acc.valid_posts + 1]
             ELSE [acc EXCEPT !.follower_count = fc]

RECURSIVE EngagementFold(_, _, _)
EngagementFold(acc, docs, hotkey) ==
    IF docs = <<>> THEN acc
    ELSE EngagementFold(EngagementVisit(acc, Head(docs), hotkey), Tail(docs), hotkey)

\* engagement_rates[hotkey]
engagement_rate(perf_coll, hotkey) ==
    LET acc == EngagementFold(EngagementStart,
                              PerfDocs({ d \in perf_coll : d.hotkey = hotkey }), hotkey)
    IN  IF acc.valid_posts > 0 /\ acc.follower_count > 0
        THEN RMul(RDiv(Rat(acc.likes + acc.comments, acc.valid_posts),
                       RInt(acc.follower_count)), RInt(100))
        ELSE Zero

\* _calculate_miner_engagement_rates
calculate_miner_engagement_rates(perf_coll, mg) ==
    [hk \in active_hotkeys(mg) |-> engagement_rate(perf_coll, hk)]

\* BriefSubmission.calculate_speed_score: 30 in the first hour, 0 from 24 hours
\* on, linear in between
calculate_speed_score(sub, brief) ==
    LET elapsed == sub.submitted_at - brief.created_at
    IN  IF elapsed <= TicksPerHour THEN RInt(30)
        ELSE IF elapsed >= 24 * TicksPerHour THEN Zero
        ELSE Rat(30 * (24 * TicksPerHour - elapsed), 23 * TicksPerHour)

\* BriefSubmission.calculate_selection_score
calculate_selection_score(sub, brief) ==
    RInt((IF sub.miner_hotkey \in brief.top_10_miners THEN 30 ELSE 0)
         + (IF sub.miner_hotkey \in brief.final_3_miners THEN 40 ELSE 0))

\* quality_multiplier = self.quality_score or 1.0: None and 0.0 are falsy
quality_multiplier(sub) ==
    IF sub.quality_score = NoQuality \/ sub.quality_score = 0 THEN RInt(1)
    ELSE Rat(sub.quality_score, 10)

\* BriefSubmission.calculate_total_score
calculate_total_score(sub, brief) ==
    IF sub.validation_status # "valid" THEN Zero
    ELSE RMul(RAdd(calculate_speed_score(sub, brief), calculate_selection_score(sub, brief)),
              quality_multiplier(sub))

\* _calculate_brief_scores: the mean total score of the valid submissions of
\* each miner to the briefs created in the last day
calculate_brief_scores(brief_coll, bsubs, now) ==
    LET recent == { b \in brief_coll : b.created_at >= now - 24 * TicksPerHour }
        scored == { <<e, b>> \in bsubs \X recent :
                       e.brief_id = b.brief_id /\ e.validation_status = "valid" }
        total == [p \in scored |-> calculate_total_score(p[1], p[2])]
        Of(hk) == { p \in scored : p[1].miner_hotkey = hk }
    IN  [hk \in { p[1].miner_hotkey : p \in scored } |->
            RDiv(SumOver(Of(hk), total), RInt(Cardinality(Of(hk))))]

(***************************************************************************)
(* Eligibility and weights (calculate_and_set_weights)                     *)
(***************************************************************************)
RECURSIVE SortedValues(_, _)
\* sorted(scores.values())
SortedValues(S, f) ==
    IF S = {} THEN <<>>
    ELSE LET m == CHOOSE x \in S : \A y \in S : RLeq(f[x], f[y])
         IN  <<f[m]>> \o SortedValues(S \ {m}, f)

\* np.percentile(values, 75), linear interpolation between the two order
\* statistics around position 0.75 * (n - 1)
percentile_75(scores) ==
    LET v == SortedValues(DOMAIN scores, scores)
        n == Len(v)
        k == (3 * (n - 1)) \div 4
        r == (3 * (n - 1)) % 4
    IN  IF r = 0 THEN v[k + 1]
        ELSE RAdd(RMul(Rat(4 - r, 4), v[k + 1]), RMul(Rat(r, 4), v[k + 2]))

\* the percentile taken whatever the size of the population
PercentileAlways(scores) ==
    IF DOMAIN scores = {} THEN Zero ELSE percentile_75(scores)

\* engagement_threshold / brief_threshold: 0 for a population of fewer than 4
eligibility_threshold(scores) ==
    IF DOMAIN scores = {} THEN Zero
    ELSE IF Cardinality(DOMAIN scores) < 4 THEN Zero
    ELSE percentile_75(scores)

\* active_engagement_rates / active_brief_scores
FilterActive(scores, active) == [hk \in DOMAIN scores \cap active |-> scores[hk]]

\* path_a_miners / path_b_miners
path_miners(scores, threshold) == { hk \in DOMAIN scores : RLeq(threshold, scores[hk]) }

NoBrief == [found |-> FALSE, brief |-> Brief("", "", 0, {}, {})]

\* _get_last_completed_brief
get_last_completed_brief(brief_coll) ==
    LET completed == { b \in brief_coll : b.status = "completed" }
    IN  IF completed = {} THEN NoBrief
        ELSE [found |-> TRUE,
              brief |-> CHOOSE b \in completed :
                           \A c \in completed : c.created_at <= b.created_at]

\* the step is skipped: nobody is disqualified
NobodyDisqualified(path_a, path_b, last, bsubs, active, now) == {}

\* Step 5: the engagement-only miners that final_eligible.discard removes
disqualified(path_a, path_b, last, bsubs, active, now) ==
    IF ~last.found THEN {}
    ELSE LET submitted == { e.miner_hotkey :
                               e \in get_brief_submissions(bsubs, last.brief.brief_id) }
         IN  { m \in path_b \ path_a :
                  /\ m \notin submitted
                  /\ now - last.brief.created_at <= 48 * TicksPerHour
                  /\ m \in active }

Get(scores, hk) == IF hk \in DOMAIN scores THEN scores[hk] ELSE Zero

\* the weights of the two scores exchanged
CombinedSwapped(E, B, hotkey) ==
    RAdd(RMul(Get(E, hotkey), Rat(3, 10)), RMul(Get(B, hotkey), Rat(7, 10)))

\* combined_scores[hotkey]
combined_score(E, B, hotkey) ==
    RAdd(RMul(Get(E, hotkey), Rat(7, 10)), RMul(Get(B, hotkey), Rat(3, 10)))

\* every hotkey with a score is given it, eligible or not
WeightsOfAllScored(mg, E, B, eligible) ==
    [i \in 1..Len(mg.hotkeys) |-> combined_score(E, B, mg.hotkeys[i])]

\* weights, one per uid in the order of metagraph.hotkeys
build_weights(mg, E, B, eligible) ==
    [i \in 1..Len(mg.hotkeys) |->
        IF mg.hotkeys[i] \in eligible THEN combined_score(E, B, mg.hotkeys[i]) ELSE Zero]

RECURSIVE SumSeq(_)
SumSeq(w) == IF w = <<>> THEN Zero ELSE RAdd(Head(w), SumSeq(Tail(w)))

RECURSIVE MaxSeq(_)
MaxSeq(w) ==
    IF Len(w) = 1 THEN w[1]
    ELSE LET m == MaxSeq(Tail(w)) IN IF RLeq(m, w[1]) THEN w[1] ELSE m

\* weights_array /= np.sum(weights_array), when the sum is positive
normalize(w) ==
    LET total == SumSeq(w)
    IN  IF RLess(Zero, total) THEN [i \in 1..Len(w) |-> RDiv(w[i], total)] ELSE w

\* Python's round(): to the nearest integer, a tie to the even one
round(r) ==
    LET q == r.n \div r.d
        rem == r.n % r.d
    IN  IF 2 * rem < r.d THEN q
        ELSE IF 2 * rem > r.d THEN q + 1
        ELSE IF q % 2 = 0 THEN q ELSE q + 1

RECURSIVE EmitFrom(_, _, _)
\* the loop of convert_weights_and_uids_for_emit that drops the zero values
EmitFrom(w, max_weight, i) ==
    IF i > Len(w) THEN [uids |-> <<>>, weights |-> <<>>]
    ELSE LET val == round(RMul(RDiv(w[i], max_weight), RInt(max_int_weight)))
             rest == EmitFrom(w, max_weight, i + 1)
         IN  IF val # 0
             THEN [uids |-> <<i - 1>> \o rest.uids, weights |-> <<val>> \o rest.weights]
             ELSE rest

\* bt.utils.weight_utils.convert_weights_and_uids_for_emit(uids, weights), uids
\* being 0 .. len(weights) - 1
convert_weights_and_uids_for_emit(w) ==
    IF SumSeq(w) = Zero THEN [uids |-> <<>>, weights |-> <<>>]
    ELSE EmitFrom(w, MaxSeq(w), 1)

(***************************************************************************)
(* Values of the variables a specification does not use                    *)
(***************************************************************************)
EmaIdle == [hotkey |-> "h1", series |-> <<>>, todo |-> <<>>, st |-> EmaStart,
            done |-> FALSE]
ParseIdle == [commit |-> <<>>, result |-> NoBriefCommit, done |-> FALSE]
FanIdle == [phase |-> "off", sem |-> 0, waiting |-> 0, resolving |-> 0, peak |-> 0,
            fetch_sem |-> 0, fetching |-> {}, left |-> <<>>]
NoMetagraph == [hotkeys |-> <<>>, S |-> <<>>, validator_permit |-> <<>>]
NoRefresh == [hotkey |-> "", kind |-> "none", ok |-> FALSE, lines |-> <<>>, before |-> <<>>,
              commit |-> <<>>, r2 |-> "none"]
NoFetch == [hotkey |-> "", content_id |-> "", fetched |-> FALSE, detector |-> "none"]
NoEnv == [metagraphs |-> {}, sync |-> {}, commitments |-> {}, gists |-> {}, tracker |-> {},
          detector |-> {}, r2 |-> {}, store |-> {}, set_weights |-> {}]
NoWeights == [uids |-> <<>>, weights |-> <<>>]
\* no pass of the loop of run() yet
NoIteration == [n |-> 0, completed |-> 0, raised |-> {}, metrics |-> FALSE, ended |-> "none"]
Snapshot(subs_coll, perf_coll, bsubs) ==
    [submissions |-> subs_coll, performances |-> perf_coll, brief_submissions |-> bsubs]
NoSnapshot == Snapshot(<<>>, {}, {})
NoCycle == [outcome |-> "none", now |-> 0, network_miners |-> {}, active_miners |-> {},
            active_engagement_rates |-> <<>>, active_brief_scores |-> <<>>,
            engagement_threshold |-> Zero, brief_threshold |-> Zero,
            path_a_miners |-> {}, path_b_miners |-> {}, last_brief |-> NoBrief,
            final_eligible |-> {}, hotkeys |-> <<>>, weights |-> <<>>,
            emitted |-> NoWeights]

StoreIdle ==
    /\ submissions = <<>>
    /\ performances = {}
    /\ briefs = {}
    /\ brief_submissions = {}

ReconIdle ==
    /\ pc = "off"
    /\ clock = 0
    /\ interval_key = 0
    /\ active_content_ids = {}
    /\ peers = {}
    /\ work = <<>>
    /\ warm_up = TRUE
    /\ publish_tasks = 0
    /\ lastRefresh = NoRefresh
    /\ lastMetric = NoFetch
    /\ aiCalls = <<>>
    /\ iteration = NoIteration
    /\ snapshot = NoSnapshot

PubIdle ==
    /\ ppc = "off"
    /\ cyc = NoCycle
    /\ set_weights_calls = 0
    /\ chain_weights = NoWeights
    /\ cycles = 0

EnvIdle ==
    /\ metagraph = NoMetagraph
    /\ env = NoEnv

(***************************************************************************)
(* Specification of get_score alone: the series is any bounded series.     *)
(***************************************************************************)
InitEma ==
    /\ \E series \in SeqsUpTo(EmaMetrics, MaxIntervals) :
          ema = [hotkey |-> "h1", series |-> series,
                 todo |-> SortedKeys(DOMAIN series), st |-> EmaStart, done |-> FALSE]
    /\ parse = ParseIdle
    /\ fan = FanIdle
    /\ EnvIdle /\ StoreIdle /\ ReconIdle /\ PubIdle

\* one iteration of "for interval_key in sorted(...)"
GetScoreVisit ==
    /\ ema.todo # <<>>
    /\ ema' = [ema EXCEPT !.st = EmaVisit(ema.st, ema.series[Head(ema.todo)], ema.hotkey),
                          !.todo = Tail(ema.todo)]
    /\ UNCHANGED <<parse, fan, envVars, storeVars, reconVars, pubVars>>

\* "return score"
GetScoreReturn ==
    /\ ema.todo = <<>>
    /\ ~ema.done
    /\ ema' = [ema EXCEPT !.done = TRUE]
    /\ UNCHANGED <<parse, fan, envVars, storeVars, reconVars, pubVars>>

NextEma == GetScoreVisit \/ GetScoreReturn

SpecEma == InitEma /\ [][NextEma]_vars

\* C1: for every bounded series get_score returns the value of the chain-reset
\* recurrence of the specification (score 0 and no baseline at the start; a
\* valid interval without baseline only records the baseline; 1000 then 1400
\* gives 380).
C1_GetScoreIsChainResetEma ==
    ema.done => ema.st.score = ChainResetScore(ema.series, ema.hotkey)

\* C1, the concrete case: two valid observations 1000 then 1400 score 380.
C1_TwoObservationsScore380 ==
    (/\ ema.done
     /\ ema.series = << Metric("youtube/video", get_signature_post("h1"), 9, 1000, 0, 0, 0),
                        Metric("youtube/video", get_signature_post("h1"), 9, 1400, 0, 0, 0) >>)
    => ema.st.score = RInt(380)

(***************************************************************************)
(* Specification of BriefCommitMessage.parse alone: the commit message is  *)
(* any message of up to MaxTokens tokens.                                  *)
(***************************************************************************)
\* the tokens a commit message is made of; "" is the empty token, as in "a::b"
CommitTokens == {"b1", "sub_1", "sub_2", "invalid_sub", ""}

InitParse ==
    /\ \E commit \in SeqsUpTo(CommitTokens, MaxTokens) :
          parse = [commit |-> commit, result |-> NoBriefCommit, done |-> FALSE]
    /\ fan = FanIdle
    /\ ema = EmaIdle
    /\ EnvIdle /\ StoreIdle /\ ReconIdle /\ PubIdle

\* the call BriefCommitMessage.parse(commit_message)
ParseCommit ==
    /\ ~parse.done
    /\ parse' = [parse EXCEPT !.result = BriefCommitMessage_parse(parse.commit),
                              !.done = TRUE]
    /\ UNCHANGED <<ema, fan, envVars, storeVars, reconVars, pubVars>>

NextParse == ParseCommit

SpecParse == InitParse /\ [][NextParse]_vars

(***************************************************************************)
(* The reconcile loop of TensorFlixValidator.run                           *)
(***************************************************************************)
\* _refresh_peer_submissions, gist branch: the submissions collection after the
\* call, subs being peer.submissions after update_submissions
refresh_peer_submissions(coll, hotkey, subs) ==
    IF subs = <<>> THEN delete_many_hotkey(coll, hotkey)
    ELSE set_submissions(coll, hotkey, subs)

\* top of the "while True" of run(): metagraph.sync() and _peer_metadata()
CycleStart ==
    /\ pc = "idle"
    /\ iteration.n < MaxIter
    /\ TRUE \in env.sync
    /\ clock' = clock + submission_update_interval
    /\ \E mg \in env.metagraphs, cm \in env.commitments :
          /\ metagraph' = mg
          /\ peers' = peer_metadata(mg, cm)
    /\ pc' = "submissions"
    /\ iteration' = [n |-> iteration.n + 1, completed |-> iteration.completed,
                     raised |-> {}, metrics |-> FALSE, ended |-> "running"]
    /\ UNCHANGED <<env, ema, parse, fan, storeVars, pubVars, interval_key, active_content_ids, work,
                   warm_up, publish_tasks, lastRefresh, lastMetric, aiCalls, snapshot>>

\* metagraph.sync() or get_all_commitments() raises: "Validator cycle failed",
\* then the sleep
CycleFails ==
    /\ pc = "idle"
    /\ iteration.n < MaxIter
    /\ FALSE \in env.sync
    /\ clock' = clock + submission_update_interval
    /\ iteration' = [n |-> iteration.n + 1, completed |-> iteration.completed,
                     raised |-> {}, metrics |-> FALSE, ended |-> "failed"]
    /\ UNCHANGED <<pc, envVars, ema, parse, fan, storeVars, pubVars, interval_key, active_content_ids,
                   peers, work, warm_up, publish_tasks, lastRefresh, lastMetric, aiCalls,
                   snapshot>>

\* _refresh_peer_submissions of a peer with a gist commitment
RefreshPeer ==
    /\ pc \in {"submissions", "aborted"}
    /\ \E p \in peers, response \in env.gists :
          /\ ~brief_commit(p).is_brief
          /\ LET subs == update_submissions(response)
             IN  /\ active_content_ids' = active_content_ids \cup ContentIds(subs)
                 /\ submissions' = refresh_peer_submissions(submissions, p.hotkey, subs)
          /\ lastRefresh' = [hotkey |-> p.hotkey, kind |-> "gist", ok |-> response.ok,
                             lines |-> response.lines,
                             before |-> PersistedSubs(submissions, p.hotkey),
                             commit |-> p.commit, r2 |-> "none"]
          /\ peers' = peers \ {p}
    /\ UNCHANGED <<envVars, ema, parse, fan, performances, briefs, brief_submissions, pubVars, pc, clock,
                   interval_key, work, warm_up, publish_tasks, lastMetric, aiCalls,
                   iteration, snapshot>>

\* _refresh_peer_submissions of a peer with a brief commitment
RefreshBriefPeer ==
    /\ pc \in {"submissions", "aborted"}
    /\ \E p \in peers, r2 \in env.r2 :
          /\ brief_commit(p).is_brief
          /\ brief_submissions' =
                process_brief_submission(brief_submissions, briefs, p, r2, clock)
          /\ lastRefresh' = [hotkey |-> p.hotkey, kind |-> "brief", ok |-> TRUE,
                             lines |-> <<>>,
                             before |-> PersistedSubs(submissions, p.hotkey),
                             commit |-> p.commit, r2 |-> r2]
          /\ peers' = peers \ {p}
    /\ UNCHANGED <<envVars, ema, parse, fan, submissions, performances, briefs, pubVars, pc, clock,
                   interval_key, active_content_ids, work, warm_up, publish_tasks,
                   lastMetric, aiCalls, iteration, snapshot>>

\* update_performance_metrics started while peers are still being refreshed
MetricsStartEarly ==
    /\ pc = "submissions"
    /\ interval_key' = clock
    /\ work' = grouped(submissions, active_content_ids)
    /\ pc' = "metrics"
    /\ iteration' = [iteration EXCEPT !.metrics = TRUE]
    /\ UNCHANGED <<envVars, ema, parse, fan, storeVars, pubVars, clock, active_content_ids, peers,
                   warm_up, publish_tasks, lastRefresh, lastMetric, aiCalls, snapshot>>

\* update_performance_metrics up to the gather: interval_key and grouped
MetricsStart ==
    /\ pc = "submissions"
    /\ peers = {}
    /\ interval_key' = clock
    /\ work' = grouped(submissions, active_content_ids)
    /\ pc' = "metrics"
    /\ iteration' = [iteration EXCEPT !.metrics = TRUE]
    /\ UNCHANGED <<envVars, ema, parse, fan, storeVars, pubVars, clock, active_content_ids, peers,
                   warm_up, publish_tasks, lastRefresh, lastMetric, aiCalls, snapshot>>

CountCall(calls, pair, ok) ==
    [calls EXCEPT ![pair] = [calls |-> @.calls + 1,
                             after_success |-> @.after_success + (IF @.succeeded THEN 1 ELSE 0),
                             succeeded |-> @.succeeded \/ ok]]

\* one pass of the loop of _update_hotkey_performances: the next submission of
\* one hotkey
UpdatePerformance ==
    /\ pc = "metrics"
    /\ \E hk \in DOMAIN work :
          /\ work[hk] # <<>>
          /\ LET sub == Head(work[hk])
                 perf == find_performance(performances, hk, sub.content_id)
             IN  \E answer \in env.tracker :
                    IF ~answer.ok
                    THEN \* metric is None: "continue"
                         /\ lastMetric' = [hotkey |-> hk, content_id |-> sub.content_id,
                                           fetched |-> FALSE, detector |-> "none"]
                         /\ UNCHANGED <<submissions, performances, aiCalls>>
                    ELSE IF ~sub.checked_for_ai
                    THEN \E det \in env.detector :
                         LET metric == [fetch_metrics(sub, hk, answer)
                                           EXCEPT !.ai_score = IF det.ok THEN det.score ELSE 0]
                         IN  /\ aiCalls' = CountCall(aiCalls, <<hk, sub.content_id>>, det.ok)
                             /\ submissions' =
                                   set_checked_for_ai(submissions, hk, sub.content_id)
                             /\ performances' = upsert_performance(performances,
                                   [perf EXCEPT !.platform_metrics_by_interval =
                                       WithInterval(@, interval_key, metric)])
                             /\ lastMetric' = [hotkey |-> hk, content_id |-> sub.content_id,
                                               fetched |-> TRUE,
                                               detector |-> IF det.ok THEN "ok" ELSE "failed"]
                    ELSE /\ performances' = upsert_performance(performances,
                               [perf EXCEPT !.platform_metrics_by_interval =
                                   WithInterval(@, interval_key,
                                                fetch_metrics(sub, hk, answer))])
                         /\ lastMetric' = [hotkey |-> hk, content_id |-> sub.content_id,
                                           fetched |-> TRUE, detector |-> "none"]
                         /\ UNCHANGED <<submissions, aiCalls>>
          /\ work' = [work EXCEPT ![hk] = Tail(@)]
    /\ UNCHANGED <<envVars, ema, parse, fan, briefs, brief_submissions, pubVars, pc, clock, interval_key,
                   active_content_ids, peers, warm_up, publish_tasks, lastRefresh,
                   iteration, snapshot>>

\* the "if warm_up" left out: every completed iteration creates a publish task
CycleEndStartsTask ==
    /\ pc = "metrics"
    /\ \A hk \in DOMAIN work : work[hk] = <<>>
    /\ warm_up' = FALSE
    /\ publish_tasks' = publish_tasks + 1
    /\ ppc' = IF warm_up THEN "idle" ELSE ppc
    /\ active_content_ids' = {}
    /\ work' = <<>>
    /\ pc' = "idle"
    /\ iteration' = [iteration EXCEPT !.ended = "completed", !.completed = @ + 1]
    /\ snapshot' = Snapshot(submissions, performances, brief_submissions)
    /\ UNCHANGED <<envVars, ema, parse, fan, storeVars, pubVars_but_ppc, clock, interval_key, peers,
                   lastRefresh, lastMetric, aiCalls>>

\* end of the try block of run(): the publish task is created on the first
\* completed iteration, _active_content_ids is cleared, then the sleep
CycleEnd ==
    /\ pc = "metrics"
    /\ \A hk \in DOMAIN work : work[hk] = <<>>
    /\ warm_up' = FALSE
    /\ publish_tasks' = IF warm_up THEN publish_tasks + 1 ELSE publish_tasks
    /\ ppc' = IF warm_up THEN "idle" ELSE ppc
    /\ active_content_ids' = {}
    /\ work' = <<>>
    /\ pc' = "idle"
    /\ iteration' = [iteration EXCEPT !.ended = "completed", !.completed = @ + 1]
    /\ snapshot' = Snapshot(submissions, performances, brief_submissions)
    /\ UNCHANGED <<envVars, ema, parse, fan, storeVars, pubVars_but_ppc, clock, interval_key, peers,
                   lastRefresh, lastMetric, aiCalls>>

(***************************************************************************)
(* The publish loop: _periodical_task and calculate_and_set_weights        *)
(***************************************************************************)
\* the return at "if not final_eligible" left out
OutcomeNeverSkips(active, eligible) ==
    IF active = {} THEN "no_active" ELSE "computed"

\* how the computation of calculate_and_set_weights ends: one of the two early
\* returns, or the weights are built
publish_outcome(active, eligible) ==
    IF active = {} THEN "no_active"
    ELSE IF eligible = {} THEN "no_eligible"
    ELSE "computed"

\* the locals of calculate_and_set_weights at the end of step 5, from the
\* store, the metagraph and the time
compute_cycle(subs_coll, perf_coll, brief_coll, bsubs, mg, now) ==
    LET active == get_active_miners(subs_coll, bsubs, mg, now)
        E == FilterActive(calculate_miner_engagement_rates(perf_coll, mg), active)
        B == FilterActive(calculate_brief_scores(brief_coll, bsubs, now), active)
        tau_E == eligibility_threshold(E)
        tau_B == eligibility_threshold(B)
        path_a == path_miners(B, tau_B)
        path_b == path_miners(E, tau_E)
        last == get_last_completed_brief(brief_coll)
        final == (path_a \cup path_b)
                    \ disqualified(path_a, path_b, last, bsubs, active, now)
    IN  IF active = {}
        THEN [NoCycle EXCEPT !.outcome = publish_outcome(active, {}), !.now = now,
                             !.network_miners = HotkeysOf(mg)]
        ELSE [outcome |-> publish_outcome(active, final), now |-> now,
              network_miners |-> HotkeysOf(mg), active_miners |-> active,
              active_engagement_rates |-> E, active_brief_scores |-> B,
              engagement_threshold |-> tau_E, brief_threshold |-> tau_B,
              path_a_miners |-> path_a, path_b_miners |-> path_b, last_brief |-> last,
              final_eligible |-> final, hotkeys |-> <<>>, weights |-> <<>>,
              emitted |-> NoWeights]

\* calculate_and_set_weights, steps 1 to 5: up to the last await before the
\* weights are built, or to one of the two early returns
PublishCompute ==
    /\ ppc = "idle"
    /\ cycles < MaxCycles
    /\ cycles' = cycles + 1
    /\ cyc' = compute_cycle(submissions, performances, briefs, brief_submissions,
                            metagraph, clock)
    /\ ppc' = IF cyc'.outcome = "computed" THEN "emit" ELSE "sleep"
    /\ UNCHANGED <<envVars, ema, parse, fan, storeVars, reconVars, set_weights_calls, chain_weights>>

\* calculate_and_set_weights, step 6 to the end: the weights by uid,
\* normalised and converted, and the call of subtensor.set_weights
PublishEmit ==
    /\ ppc = "emit"
    /\ \E accepted \in env.set_weights :
          LET weights == build_weights(metagraph, cyc.active_engagement_rates,
                                       cyc.active_brief_scores, cyc.final_eligible)
              emitted == convert_weights_and_uids_for_emit(normalize(weights))
          IN  /\ cyc' = [cyc EXCEPT !.hotkeys = metagraph.hotkeys, !.weights = weights,
                                    !.emitted = emitted, !.outcome = "published"]
              /\ set_weights_calls' = set_weights_calls + 1
              /\ chain_weights' = IF accepted THEN emitted ELSE chain_weights
    /\ ppc' = "sleep"
    /\ UNCHANGED <<envVars, ema, parse, fan, storeVars, reconVars, cycles>>

\* await asyncio.sleep(CONFIG.set_weights_interval)
PublishSleep ==
    /\ ppc = "sleep"
    /\ clock' = clock + set_weights_interval
    /\ ppc' = "idle"
    /\ UNCHANGED <<envVars, ema, parse, fan, storeVars, pubVars_but_ppc, pc, interval_key,
                   active_content_ids, peers, work, warm_up, publish_tasks, lastRefresh,
                   lastMetric, aiCalls, iteration, snapshot>>

\* metagraph.sync() of the reconcile loop, while the publish loop is at an await
SyncMetagraph ==
    /\ ppc \in {"idle", "emit"}
    /\ \E mg \in env.metagraphs \ {metagraph} : metagraph' = mg
    /\ UNCHANGED <<env, ema, parse, fan, storeVars, reconVars, pubVars>>

(***************************************************************************)
(* Environments                                                            *)
(***************************************************************************)
Metagraph4 ==
    [hotkeys |-> <<"h1", "h2", "h3", "h4">>, S |-> <<1, 1, 1, 1>>,
     validator_permit |-> <<FALSE, FALSE, FALSE, TRUE>>]

GistCommit == <<"alice", "abcd">>
BriefCommit == <<"b1", "sub_1", "https", "//r2/x.mp4">>

LineA == GistLine("c1", "youtube/video", FALSE)
LineB == GistLine("c2", "youtube/video", FALSE)
\* a record whose checked_for_ai is already true in the gist
LineChecked == GistLine("c2", "youtube/video", TRUE)
GistFails == [ok |-> FALSE, lines |-> <<>>]
GistText(lines) == [ok |-> TRUE, lines |-> lines]

\* the lines a gist is made of: a record of each content, a record of a
\* platform outside the allow-list, and text that is no JSON
GistLines == {LineA, LineB, MalformedLine, GistLine("c1", "instagram/reel", FALSE)}

TrackerFails == [ok |-> FALSE, signed |-> FALSE, views |-> 0, likes |-> 0, comments |-> 0,
                 followers |-> 0]
TrackerAnswer(signed, views, likes, comments, followers) ==
    [ok |-> TRUE, signed |-> signed, views |-> views, likes |-> likes,
     comments |-> comments, followers |-> followers]

DetectorFails == [ok |-> FALSE, score |-> 0]
DetectorAnswer(score) == [ok |-> TRUE, score |-> score]

\* the services of the reconcile specification: few gists, every outcome of the
\* platform tracker and of the AI detector
EnvReconcile ==
    [metagraphs |-> {Metagraph4},
     sync |-> {TRUE, FALSE},
     commitments |-> { [hk \in {"h1"} |-> GistCommit],
                       [hk \in {"h1", "h2"} |-> IF hk = "h1" THEN GistCommit ELSE BriefCommit] },
     gists |-> {GistFails, GistText(<<LineA>>), GistText(<<LineA, LineB>>),
                GistText(<<LineChecked>>)},
     tracker |-> {TrackerFails, TrackerAnswer(TRUE, 1000, 2, 1, 100),
                  TrackerAnswer(TRUE, 1400, 2, 1, 100)},
     detector |-> {DetectorFails, DetectorAnswer(9)},
     r2 |-> {"valid", "invalid"},
     store |-> {TRUE},
     set_weights |-> {TRUE, FALSE}]

\* the services of the resolve specification: every gist of up to MaxLines
\* lines, one answer of the platform tracker and of the AI detector
EnvResolve ==
    [metagraphs |-> {Metagraph4},
     sync |-> {TRUE, FALSE},
     commitments |-> { [hk \in {"h1"} |-> GistCommit],
                       [hk \in {"h1", "h2"} |-> IF hk = "h1" THEN GistCommit ELSE BriefCommit] },
     gists |-> {GistFails} \cup { GistText(lines) : lines \in SeqsUpTo(GistLines, MaxLines) },
     tracker |-> {TrackerAnswer(TRUE, 1000, 2, 1, 100)},
     detector |-> {DetectorAnswer(9)},
     r2 |-> {"valid"},
     store |-> {TRUE},
     set_weights |-> {TRUE, FALSE}]

NoAiCalls ==
    [pair \in Hotkeys \X Contents |-> [calls |-> 0, after_success |-> 0, succeeded |-> FALSE]]

\* the validator after construction, over an empty store with one active brief
InitValidator ==
    /\ ema = EmaIdle
    /\ parse = ParseIdle
    /\ fan = FanIdle
    /\ metagraph = Metagraph4
    /\ submissions = <<>>
    /\ performances = {}
    /\ briefs = {Brief("b1", "active", 0, {}, {})}
    /\ brief_submissions = {}
    /\ pc = "idle"
    /\ clock = 0
    /\ interval_key = 0
    /\ active_content_ids = {}
    /\ peers = {}
    /\ work = <<>>
    /\ warm_up = TRUE
    /\ publish_tasks = 0
    /\ lastRefresh = NoRefresh
    /\ lastMetric = NoFetch
    /\ aiCalls = NoAiCalls
    /\ iteration = NoIteration
    /\ snapshot = NoSnapshot
    /\ PubIdle

Init == InitValidator /\ env = EnvReconcile

InitResolve == InitValidator /\ env = EnvResolve

Next ==
    \/ CycleStart
    \/ CycleFails
    \/ RefreshPeer
    \/ RefreshBriefPeer
    \/ MetricsStart
    \/ UpdatePerformance
    \/ CycleEnd

Spec == Init /\ [][Next]_vars

SpecResolve == InitResolve /\ [][Next]_vars

(***************************************************************************)
(* The whole of run(): both loops, and the exceptions a failing store      *)
(* raises in them                                                          *)
(***************************************************************************)
\* _refresh_peer_submissions raises: the write of a gist peer after its
\* update_submissions, or get_brief of a brief peer.  _guarded does not catch
\* it and gather hands the first exception to update_all_submissions at once,
\* while the tasks of the other peers go on.
PeerRaises ==
    /\ pc \in {"submissions", "aborted"}
    /\ FALSE \in env.store
    /\ \E p \in peers :
          /\ IF brief_commit(p).is_brief
             THEN UNCHANGED active_content_ids
             ELSE \E response \in env.gists :
                     active_content_ids' =
                         active_content_ids \cup ContentIds(update_submissions(response))
          /\ iteration' = [iteration EXCEPT !.raised = @ \cup {p.hotkey}]
          /\ peers' = peers \ {p}
    /\ pc' = "aborted"
    /\ UNCHANGED <<envVars, ema, parse, fan, storeVars, pubVars, clock, interval_key, work, warm_up,
                   publish_tasks, lastRefresh, lastMetric, aiCalls, snapshot>>

\* the "except Exception" of run() after update_all_submissions raised, then
\* the sleep, during which the tasks gather left running have ended
CycleAborted ==
    /\ pc = "aborted"
    /\ peers = {}
    /\ pc' = "idle"
    /\ iteration' = [iteration EXCEPT !.ended = "failed"]
    /\ UNCHANGED <<envVars, ema, parse, fan, storeVars, pubVars, clock, interval_key,
                   active_content_ids, peers, work, warm_up, publish_tasks, lastRefresh,
                   lastMetric, aiCalls, snapshot>>

\* the find of update_performance_metrics raises: "Validator cycle failed",
\* then the sleep
MetricsRaise ==
    /\ pc = "submissions"
    /\ peers = {}
    /\ FALSE \in env.store
    /\ pc' = "idle"
    /\ iteration' = [iteration EXCEPT !.ended = "failed"]
    /\ UNCHANGED <<envVars, ema, parse, fan, storeVars, pubVars, clock, interval_key,
                   active_content_ids, peers, work, warm_up, publish_tasks, lastRefresh,
                   lastMetric, aiCalls, snapshot>>

\* the try of calculate_and_set_weights left out: the exception ends
\* _periodical_task
PublishFailsUncaught ==
    /\ ppc = "idle"
    /\ cycles < MaxCycles
    /\ FALSE \in env.store
    /\ cycles' = cycles + 1
    /\ cyc' = [NoCycle EXCEPT !.outcome = "failed", !.now = clock]
    /\ ppc' = "dead"
    /\ UNCHANGED <<envVars, ema, parse, fan, storeVars, reconVars, set_weights_calls, chain_weights>>

\* calculate_and_set_weights when a read of the store raises: the
\* "except Exception" at its end logs "Weight calculation failed"
PublishFails ==
    /\ ppc = "idle"
    /\ cycles < MaxCycles
    /\ FALSE \in env.store
    /\ cycles' = cycles + 1
    /\ cyc' = [NoCycle EXCEPT !.outcome = "failed", !.now = clock]
    /\ ppc' = "sleep"
    /\ UNCHANGED <<envVars, ema, parse, fan, storeVars, reconVars, set_weights_calls, chain_weights>>

\* a later commitment of the same peer for the same brief, with another
\* artifact URL
BriefCommitOther == <<"b1", "sub_1", "https", "//r2/y.mp4">>

\* the services of the whole run: a store that can fail
EnvRun ==
    [metagraphs |-> {Metagraph4},
     sync |-> {TRUE, FALSE},
     commitments |-> { [hk \in {"h1", "h2"} |-> IF hk = "h1" THEN GistCommit ELSE brief] :
                          brief \in {BriefCommit, BriefCommitOther} },
     gists |-> {GistText(<<LineA>>)},
     tracker |-> {TrackerAnswer(TRUE, 1000, 2, 1, 100)},
     detector |-> {DetectorAnswer(9)},
     r2 |-> {"valid", "invalid"},
     store |-> {TRUE, FALSE},
     set_weights |-> {TRUE, FALSE}]

InitRun == InitValidator /\ env = EnvRun

ReconcileLoop ==
    \/ Next
    \/ PeerRaises
    \/ CycleAborted
    \/ MetricsRaise

PublishLoop ==
    \/ PublishCompute
    \/ PublishFails
    \/ PublishEmit
    \/ PublishSleep

NextRun == ReconcileLoop \/ PublishLoop

SpecRun == InitRun /\ [][NextRun]_vars

\* _periodical_task can take a step: it is about to call
\* calculate_and_set_weights, inside the call, or in its sleep
PublishLoopReady ==
    \/ ppc = "idle" /\ cycles < MaxCycles
    \/ ppc \in {"emit", "sleep"}

\* a step of _periodical_task, told by the move of its position
PublishLoopStep ==
    /\ PublishLoopReady
    /\ ppc' \in {"idle", "emit", "sleep"}
    /\ ppc' # ppc

\* The two loops are tasks of one asyncio event loop: a task that is ready, or
\* whose sleep or request has ended, is run.
SpecRunFair == SpecRun /\ WF_vars(ReconcileLoop) /\ WF_ppc(PublishLoopStep)

\* Services that answer every request of a run the same way: one commitments
\* map, one gist text, one answer of the tracker, of the detector and of R2.
SteadyCommitments ==
    { [hk \in {"h1"} |-> GistCommit],
      [hk \in {"h1", "h2"} |-> IF hk = "h1" THEN GistCommit ELSE BriefCommit],
      [hk \in {"h1", "h3"} |-> GistCommit] }

SteadyEnvs ==
    { [metagraphs |-> {Metagraph4},
       sync |-> {TRUE, FALSE},
       commitments |-> {cm},
       gists |-> {g},
       tracker |-> {t},
       detector |-> {d},
       r2 |-> {r},
       store |-> {TRUE},
       set_weights |-> {TRUE, FALSE}] :
        cm \in SteadyCommitments,
        g \in {GistFails, GistText(<<LineA>>), GistText(<<LineA, LineB>>),
               GistText(<<LineChecked>>)},
        t \in {TrackerFails, TrackerAnswer(TRUE, 1000, 2, 1, 100)},
        d \in {DetectorFails, DetectorAnswer(9)},
        r \in {"valid", "invalid"} }

InitSteady == InitValidator /\ env \in SteadyEnvs

\* the reconcile loop over services whose answers do not change
SpecSteady == InitSteady /\ [][Next]_vars

(***************************************************************************)
(* Specification of _calculate_miner_engagement_rates alone: hotkey h1     *)
(* has any bounded Performance series of the contents c1 and c2, and is a  *)
(* miner, a validator or without stake.                                    *)
(***************************************************************************)
\* the metrics the series are drawn from: valid, unsigned or with an ai_score
\* at the threshold; two like counts; follower count absent or 100
EngagementMetrics ==
    { Metric("youtube/video", v[1], v[2], 1000, l, 1, f) :
        v \in { <<get_signature_post("h1"), 9>>, <<NoSignature, 9>>,
                <<get_signature_post("h1"), ai_generated_score_threshold>> },
        l \in {2, 5},
        f \in {0, 100} }

InitEngagement ==
    /\ \E s1 \in SeqsUpTo(EngagementMetrics, MaxSeries),
          s2 \in SeqsUpTo(EngagementMetrics, 1),
          stake \in {0, 1}, permit \in BOOLEAN :
          /\ performances =
                (IF s1 = <<>> THEN {} ELSE {Performance("h1", "c1", s1)})
                \cup (IF s2 = <<>> THEN {} ELSE {Performance("h1", "c2", s2)})
          /\ metagraph = [hotkeys |-> <<"h1", "h2">>, S |-> <<stake, 1>>,
                          validator_permit |-> <<permit, FALSE>>]
    /\ env = NoEnv
    /\ ema = EmaIdle
    /\ parse = ParseIdle
    /\ fan = FanIdle
    /\ submissions = <<>>
    /\ briefs = {}
    /\ brief_submissions = {}
    /\ ReconIdle /\ PubIdle

\* the call of _calculate_miner_engagement_rates
CalculateEngagementRates ==
    /\ cyc.outcome = "none"
    /\ cyc' = [NoCycle EXCEPT !.outcome = "rates",
                              !.active_engagement_rates =
                                  calculate_miner_engagement_rates(performances, metagraph)]
    /\ UNCHANGED <<envVars, ema, parse, fan, storeVars, reconVars, ppc, set_weights_calls,
                   chain_weights, cycles>>

NextEngagement == CalculateEngagementRates

SpecEngagement == InitEngagement /\ [][NextEngagement]_vars

(***************************************************************************)
(* Stores the publish loop runs over                                       *)
(***************************************************************************)
\* h1 .. h4 are miners, h5 holds a validator permit
Metagraph5 ==
    [hotkeys |-> <<"h1", "h2", "h3", "h4", "h5">>, S |-> <<1, 1, 1, 1, 1>>,
     validator_permit |-> <<FALSE, FALSE, FALSE, FALSE, TRUE>>]

\* the same subnet after h2 was deregistered and h6 registered at its uid,
\* without stake yet
Metagraph5Replaced ==
    [hotkeys |-> <<"h1", "h6", "h3", "h4", "h5">>, S |-> <<1, 0, 1, 1, 1>>,
     validator_permit |-> <<FALSE, FALSE, FALSE, FALSE, TRUE>>]

EnvPublish ==
    [metagraphs |-> {Metagraph5, Metagraph5Replaced},
     sync |-> {TRUE},
     commitments |-> {},
     gists |-> {},
     tracker |-> {},
     detector |-> {},
     r2 |-> {},
     store |-> {TRUE},
     set_weights |-> {TRUE, FALSE}]

\* What the store holds for one hotkey: gist, a persisted non-empty submission
\* list; perf, its Performance of content c1; b1, its submission to the
\* active brief b1; b0, whether it submitted to the completed brief b0.
Profile(gist, perf, b1, b0) == [gist |-> gist, perf |-> perf, b1 |-> b1, b0 |-> b0]

MinerProfiles ==
    << Profile(FALSE, "none", "none", FALSE),
       Profile(TRUE, "none", "none", FALSE),
       Profile(TRUE, "low", "none", FALSE),
       Profile(TRUE, "high", "none", FALSE),
       Profile(TRUE, "high", "none", TRUE),
       Profile(FALSE, "none", "fast", FALSE),
       Profile(TRUE, "low", "top", FALSE),
       Profile(TRUE, "unsigned", "none", FALSE),
       Profile(TRUE, "unfollowed", "slow", FALSE) >>

ValidatorProfiles ==
    { Profile(FALSE, "none", "none", FALSE),
      Profile(TRUE, "none", "none", FALSE),
      Profile(TRUE, "none", "fast", FALSE) }

\* the completed briefs of the store: none; b0 created 6 hours ago; b0 created
\* 48 hours ago; b0 created 6 hours ago and an older one nobody submitted to
BriefScenarios == {"none", "recent", "boundary", "two"}

\* the series of a Performance of a profile: the latest metric decides the rate
ProfileSeries(perf, hotkey) ==
    LET sig == get_signature_post(hotkey)
    IN  IF perf = "low" THEN << Metric("youtube/video", sig, 9, 1000, 2, 1, 100) >>
        ELSE IF perf = "high"
        THEN << Metric("youtube/video", sig, 9, 1000, 40, 10, 100),
                Metric("youtube/video", sig, 9, 1400, 5, 1, 100) >>
        ELSE IF perf = "unsigned"
        THEN << Metric("youtube/video", NoSignature, 9, 1000, 5, 1, 100) >>
        ELSE << Metric("youtube/video", sig, 9, 1000, 5, 1, 0) >>

RECURSIVE ProfileDocs(_, _)
\* the submissions collection of the profiles pr, for the hotkeys of order
ProfileDocs(pr, order) ==
    IF order = <<>> THEN <<>>
    ELSE (IF pr[Head(order)].gist
          THEN << PeerDoc(Head(order), << Submission("c1", "youtube/video", TRUE) >>) >>
          ELSE <<>>)
         \o ProfileDocs(pr, Tail(order))

\* creation time of the active brief b1: 10 hours before the first cycle
B1CreatedAt == 0 - 10 * TicksPerHour

ProfileBriefSubmissions(pr) ==
    { BriefSubmission("b1", hk, "sub_1", <<"https", "//r2/x.mp4">>, "valid",
                      IF pr[hk].b1 = "slow" THEN B1CreatedAt + 26 ELSE B1CreatedAt + 1) :
        hk \in { h \in DOMAIN pr : pr[h].b1 # "none" } }
    \cup
    { BriefSubmission("b0", hk, "sub_1", <<"https", "//r2/y.mp4">>, "pending",
                      0 - 5 * TicksPerHour) :
        hk \in { h \in DOMAIN pr : pr[h].b0 } }

ProfileBriefs(pr, scenario) ==
    { Brief("b1", "active", B1CreatedAt, { h \in DOMAIN pr : pr[h].b1 = "top" }, {}) }
    \cup (IF scenario \in {"recent", "two"}
          THEN { Brief("b0", "completed", 0 - 6 * TicksPerHour, {}, {}) } ELSE {})
    \cup (IF scenario = "boundary"
          THEN { Brief("b0", "completed", 0 - 48 * TicksPerHour, {}, {}) } ELSE {})
    \cup (IF scenario = "two"
          THEN { Brief("b00", "completed", 0 - 20 * TicksPerHour, {}, {}) } ELSE {})

\* the validator with its publish task started, over a store of profiles
InitPublish ==
    /\ \E idx \in [1..4 -> 1..Len(MinerProfiles)], vp \in ValidatorProfiles,
          scenario \in BriefScenarios :
          /\ \A i \in 1..3 : idx[i] <= idx[i + 1]
          /\ LET order == <<"h1", "h2", "h3", "h4", "h5">>
                 pr == [hk \in {"h1", "h2", "h3", "h4", "h5"} |->
                          IF hk = "h5" THEN vp
                          ELSE MinerProfiles[idx[CHOOSE i \in 1..4 : order[i] = hk]]]
             IN  /\ submissions = ProfileDocs(pr, order)
                 /\ performances =
                       { Performance(hk, "c1", ProfileSeries(pr[hk].perf, hk)) :
                            hk \in { h \in DOMAIN pr : pr[h].perf # "none" } }
                 /\ brief_submissions = ProfileBriefSubmissions(pr)
                 /\ briefs = ProfileBriefs(pr, scenario)
    /\ ema = EmaIdle
    /\ parse = ParseIdle
    /\ fan = FanIdle
    /\ metagraph = Metagraph5
    /\ env = EnvPublish
    /\ pc = "idle"
    /\ clock = 0
    /\ interval_key = 0
    /\ active_content_ids = {}
    /\ peers = {}
    /\ work = <<>>
    /\ warm_up = FALSE
    /\ publish_tasks = 1
    /\ lastRefresh = NoRefresh
    /\ lastMetric = NoFetch
    /\ aiCalls = NoAiCalls
    /\ iteration = [n |-> 1, completed |-> 1, raised |-> {}, metrics |-> TRUE,
                    ended |-> "completed"]
    /\ snapshot = Snapshot(submissions, performances, brief_submissions)
    /\ ppc = "idle"
    /\ cyc = NoCycle
    /\ set_weights_calls = 0
    /\ chain_weights = NoWeights
    /\ cycles = 0

NextPublish ==
    \/ PublishCompute
    \/ PublishEmit
    \/ PublishSleep
    \/ SyncMetagraph

SpecPublish == InitPublish /\ [][NextPublish]_vars

(***************************************************************************)
(* Properties of the reconcile loop                                        *)
(***************************************************************************)
RECURSIVE DedupFirst(_, _)
\* seq without the submissions whose (platform, content_id) is in seen or
\* occurred earlier in seq
DedupFirst(seq, seen) ==
    IF seq = <<>> THEN <<>>
    ELSE LET key == <<Head(seq).platform, Head(seq).content_id>>
         IN  IF key \in seen THEN DedupFirst(Tail(seq), seen)
             ELSE <<Head(seq)>> \o DedupFirst(Tail(seq), seen \cup {key})

\* the lines of a gist that are records of an allow-listed platform
RecordsOf(lines) ==
    LET Good(line) == line.json /\ line.platform \in allowed_platforms
        good == SelectSeq(lines, Good)
    IN  [i \in 1..Len(good) |->
            Submission(good[i].content_id, good[i].platform, good[i].checked_for_ai)]

\* C2: after a gist resolve of a peer succeeds, the list persisted for its
\* hotkey is the list of the records of the gist (malformed lines and platforms
\* outside the allow-list dropped), deduplicated by (platform, content_id),
\* first occurrence kept, in first-occurrence order.
C2_PersistedIsDedupedGist ==
    (lastRefresh.kind = "gist" /\ lastRefresh.ok)
    => PersistedSubs(submissions, lastRefresh.hotkey)
          = DedupFirst(RecordsOf(lastRefresh.lines), {})

SameContent(d, e) == d.hotkey = e.hotkey /\ d.content_id = e.content_id

\* C8: the series of a (hotkey, content_id) is append-only: no step removes a
\* Performance document or one of its interval keys, or changes the metric of
\* an interval key other than the one of the running iteration, and a
\* document appears only in a step whose metric fetch succeeded for its pair.
C8_SeriesAppendOnly ==
    [][ /\ \A d \in performances : \E e \in performances' :
              /\ SameContent(d, e)
              /\ DOMAIN d.platform_metrics_by_interval
                    \subseteq DOMAIN e.platform_metrics_by_interval
              /\ \A k \in DOMAIN d.platform_metrics_by_interval :
                    k # interval_key' =>
                       e.platform_metrics_by_interval[k] = d.platform_metrics_by_interval[k]
        /\ \A e \in performances' :
              (~\E d \in performances : SameContent(d, e))
              => /\ pc = "metrics"
                 /\ lastMetric'.fetched
                 /\ lastMetric'.hotkey = e.hotkey
                 /\ lastMetric'.content_id = e.content_id ]_vars

\* C8, reached: a stored series holds the intervals of two iterations.
C8_Witness ==
    \E d \in performances : Cardinality(DOMAIN d.platform_metrics_by_interval) >= 2

\* C9: once a detection has succeeded for a (hotkey, content_id), the AI
\* detector is not called for that pair again, in this or a later iteration.
C9_DetectorCalledOnce ==
    \A pair \in DOMAIN aiCalls : aiCalls[pair].after_success = 0

\* C10: a gist fetch that fails leaves the submissions record persisted for
\* the hotkey as it was before the resolve.
C10_FailedFetchKeepsRecord ==
    (lastRefresh.kind = "gist" /\ ~lastRefresh.ok)
    => PersistedSubs(submissions, lastRefresh.hotkey) = lastRefresh.before

(***************************************************************************)
(* Properties of the publish loop                                          *)
(***************************************************************************)
\* the running cycle has passed step 5 with somebody active
Computed == cyc.outcome \in {"no_eligible", "computed", "published"}

\* the hotkey the published vector gives its j-th weight to
EmittedHotkey(j) == cyc.hotkeys[cyc.emitted.uids[j] + 1]

\* C3: in a cycle that calls set_weights, P is a subset of A and A of the
\* metagraph hotkeys; the weight of a uid before normalisation is
\* 0.7 * E[m] + 0.3 * B[m] when its hotkey m is in P (a missing entry counting
\* as 0) and 0 otherwise; and the vector passed to set_weights holds a
\* non-zero weight only for uids whose hotkey is in P.
C3_WeightOnlyForEligible ==
    cyc.outcome = "published" =>
      /\ cyc.final_eligible \subseteq cyc.active_miners
      /\ cyc.active_miners \subseteq cyc.network_miners
      /\ Len(cyc.weights) = Len(cyc.hotkeys)
      /\ \A i \in 1..Len(cyc.hotkeys) :
            LET m == cyc.hotkeys[i]
                E == cyc.active_engagement_rates
                B == cyc.active_brief_scores
            IN  cyc.weights[i] =
                   IF m \in cyc.final_eligible
                   THEN RAdd(RMul(Rat(7, 10), IF m \in DOMAIN E THEN E[m] ELSE Zero),
                             RMul(Rat(3, 10), IF m \in DOMAIN B THEN B[m] ELSE Zero))
                   ELSE Zero
      /\ Len(cyc.emitted.uids) = Len(cyc.emitted.weights)
      /\ \A j \in 1..Len(cyc.emitted.uids) :
            /\ cyc.emitted.uids[j] \in 0..(Len(cyc.hotkeys) - 1)
            /\ cyc.emitted.weights[j] # 0 => EmittedHotkey(j) \in cyc.final_eligible

\* C3, reached: a vector was passed that holds a weight for an eligible miner
\* with both scores positive, while a hotkey of the metagraph with a positive
\* engagement rate is not eligible and is left out.
C3_Witness ==
    /\ cyc.outcome = "published"
    /\ \E j \in 1..Len(cyc.emitted.uids) :
          /\ cyc.emitted.weights[j] > 0
          /\ EmittedHotkey(j) \in DOMAIN cyc.active_brief_scores
          /\ RLess(Zero, cyc.active_engagement_rates[EmittedHotkey(j)])
    /\ \E i \in 1..Len(cyc.hotkeys) :
          /\ cyc.hotkeys[i] \notin cyc.final_eligible
          /\ cyc.hotkeys[i] \in DOMAIN cyc.active_engagement_rates
          /\ RLess(Zero, cyc.active_engagement_rates[cyc.hotkeys[i]])

RECURSIVE SumInts(_)
SumInts(w) == IF w = <<>> THEN 0 ELSE Head(w) + SumInts(Tail(w))

\* C4: a vector whose weights sum to zero is never passed to set_weights;
\* when P is not empty and every weight is zero, the vector passed gives
\* max_int_weight to the uid of each miner of P.
C4_ZeroSumFallsBack ==
    cyc.outcome = "published" =>
      /\ SumInts(cyc.emitted.weights) > 0
      /\ SumSeq(cyc.weights) = Zero =>
            \A i \in 1..Len(cyc.hotkeys) :
               cyc.hotkeys[i] \in cyc.final_eligible =>
                  \E j \in 1..Len(cyc.emitted.uids) :
                     /\ cyc.emitted.uids[j] = i - 1
                     /\ cyc.emitted.weights[j] = max_int_weight

\* the most recent completed brief of the store, as a set of at most one
LastCompleted ==
    { b \in briefs : /\ b.status = "completed"
                     /\ \A c \in briefs : c.status = "completed" => c.created_at <= b.created_at }

SubmittedTo(m, b) ==
    \E e \in brief_submissions : e.brief_id = b.brief_id /\ e.miner_hotkey = m

\* C5: a miner eligible on the engagement path only is out of P when the most
\* recent completed brief is younger than 48 hours and the miner has no
\* submission to it (and then no weight of a published vector is its); it is in
\* P when there is no completed brief, when that brief is older than 48 hours
\* or when the miner submitted to it; a miner of P_A is always in P.
C5_Disqualification ==
    Computed =>
      /\ \A m \in cyc.path_b_miners \ cyc.path_a_miners :
            /\ (\E b \in LastCompleted : /\ cyc.now - b.created_at < 48 * TicksPerHour
                                         /\ ~SubmittedTo(m, b))
               => /\ m \notin cyc.final_eligible
                  /\ cyc.outcome = "published" =>
                        \A j \in 1..Len(cyc.emitted.uids) : EmittedHotkey(j) # m
            /\ (\/ LastCompleted = {}
                \/ \E b \in LastCompleted : \/ cyc.now - b.created_at > 48 * TicksPerHour
                                            \/ SubmittedTo(m, b))
               => m \in cyc.final_eligible
      /\ cyc.path_a_miners \subseteq cyc.final_eligible

\* C5, reached: a vector was published in a cycle that removed an
\* engagement-only miner with a positive rate and kept another one that had
\* submitted to the brief.
C5_Witness ==
    /\ cyc.outcome = "published"
    /\ \E m \in cyc.path_b_miners \ cyc.path_a_miners :
          /\ m \notin cyc.final_eligible
          /\ RLess(Zero, cyc.active_engagement_rates[m])
    /\ \E m \in cyc.path_b_miners \ cyc.path_a_miners :
          /\ m \in cyc.final_eligible
          /\ \E b \in LastCompleted : SubmittedTo(m, b)

\* no completed brief can disqualify in the running cycle
NoDisqualifyingBrief ==
    \A b \in LastCompleted : cyc.now - b.created_at > 48 * TicksPerHour

C7_NoPublishWithoutEligible ==
    [][ /\ (set_weights_calls' # set_weights_calls \/ chain_weights' # chain_weights)
              => cyc.active_miners # {} /\ cyc.final_eligible # {}
        /\ (ppc = "idle" /\ ppc' # "idle"
              /\ (cyc'.active_miners = {} \/ cyc'.final_eligible = {}))
              => /\ ppc' = "sleep"
                 /\ set_weights_calls' = set_weights_calls
                 /\ chain_weights' = chain_weights ]_vars

\* C7, reached: a cycle after a published one lost every eligible miner to the
\* disqualification and left the on-chain vector as it was.
C7_Witness ==
    /\ cyc.outcome = "no_eligible"
    /\ cyc.path_b_miners # {}
    /\ ppc = "sleep"
    /\ chain_weights # NoWeights

(***************************************************************************)
(* Properties of the store                                                 *)
(***************************************************************************)
\* C11: the submissions collection holds at most one document per hotkey and
\* the performances collection at most one document per (hotkey, content_id).
C11_StoreUniqueness ==
    /\ \A i, j \in 1..Len(submissions) :
          submissions[i].hotkey = submissions[j].hotkey => i = j
    /\ \A d, e \in performances : SameContent(d, e) => d = e

PlatformContents(subs) ==
    { <<subs[i].platform, subs[i].content_id>> : i \in 1..Len(subs) }

\* C12: a submission belongs to one peer: no (platform, content_id) pair is in
\* the persisted submission lists of two different hotkeys.
C12_SubmissionHasOneOwner ==
    \A i, j \in 1..Len(submissions) :
        submissions[i].hotkey # submissions[j].hotkey =>
            PlatformContents(submissions[i].submissions)
                \cap PlatformContents(submissions[j].submissions) = {}

(***************************************************************************)
(* Properties of the whole run                                             *)
(***************************************************************************)
\* C13: the publish loop is started exactly once, by the first reconcile
\* iteration that completes (sync, submission update and metric update without
\* an exception): there is one publish task once an iteration has completed
\* and none before, and no publish cycle and no set_weights call happens
\* before an iteration has completed.
C13_PublishLoopStartedOnce ==
    /\ publish_tasks = (IF iteration.completed > 0 THEN 1 ELSE 0)
    /\ (ppc # "off" \/ cycles > 0 \/ set_weights_calls > 0) => iteration.completed > 0

\* a failed first iteration, a completed second one, then a publication
C13_Witness ==
    /\ iteration.n = 2
    /\ iteration.completed = 1
    /\ iteration.ended = "completed"
    /\ publish_tasks = 1
    /\ set_weights_calls > 0

\* the last publish cycle failed: the score computation raised, or set_weights
\* was called and the chain did not take the weights
PublishCycleFailed ==
    \/ cyc.outcome = "failed"
    \/ cyc.outcome = "published" /\ chain_weights # cyc.emitted

\* C14: no component error ends a loop (below the bounds of the model): after
\* a failed reconcile iteration another iteration begins, after a failed
\* publish cycle another cycle begins, and a failure of one loop does not stop
\* the other.
C14_LoopsSurviveFailures ==
    /\ \A n \in 1..(MaxIter - 1) :
          (iteration.n = n /\ iteration.ended = "failed") ~> (iteration.n = n + 1)
    /\ \A c \in 1..(MaxCycles - 1) :
          (cycles = c /\ PublishCycleFailed) ~> (cycles = c + 1)
    /\ \A c \in 0..(MaxCycles - 1) :
          (iteration.ended = "failed" /\ ppc # "off" /\ cycles = c) ~> (cycles = c + 1)
    /\ \A n \in 1..(MaxIter - 1) :
          (PublishCycleFailed /\ iteration.n = n) ~> (iteration.n = n + 1)

\* the first iteration failed and a second one ran; the first publish cycle
\* ended in a set_weights error and a second cycle ran
C14_Witness ==
    /\ iteration.n = 2
    /\ iteration.completed = 1
    /\ cycles = 2
    /\ set_weights_calls = 2
    /\ cyc.emitted # NoWeights
    /\ chain_weights = NoWeights

\* the metric phase of the running iteration has processed every submission:
\* the store is as the iteration leaves it
IterationDone == pc = "metrics" /\ \A hk \in DOMAIN work : work[hk] = <<>>

\* C15: a reconcile iteration run after a completed one, with the same
\* commitments and the same answers of the services, leaves the submissions
\* documents and the brief submissions as they were, adds no Performance
\* document and changes a series only by the entry of its own interval key.
C15_ReconcileIdempotent ==
    (IterationDone /\ iteration.completed >= 1) =>
        /\ submissions = snapshot.submissions
        /\ brief_submissions = snapshot.brief_submissions
        /\ \A d \in snapshot.performances : \E e \in performances :
              /\ SameContent(d, e)
              /\ DOMAIN d.platform_metrics_by_interval
                    \subseteq DOMAIN e.platform_metrics_by_interval
              /\ DOMAIN e.platform_metrics_by_interval
                    \subseteq DOMAIN d.platform_metrics_by_interval \cup {interval_key}
              /\ \A k \in DOMAIN d.platform_metrics_by_interval :
                    e.platform_metrics_by_interval[k] = d.platform_metrics_by_interval[k]
        /\ \A e \in performances : \E d \in snapshot.performances : SameContent(d, e)

\* a second iteration is done over a store holding a gist peer's documents, a
\* brief submission, and a series that got its second interval
C15_Witness ==
    /\ IterationDone
    /\ iteration.completed >= 1
    /\ Len(submissions) >= 2
    /\ brief_submissions # {}
    /\ \E e \in performances : Cardinality(DOMAIN e.platform_metrics_by_interval) = 2

(***************************************************************************)
(* Properties of the scores                                                *)
(***************************************************************************)
\* an allow-listed interval that fails the signature check or whose ai_score
\* is not above the threshold
InvalidInterval(metric, hotkey) ==
    /\ metric.platform_name \in allowed_platforms
    /\ ~(check_signature(metric, hotkey) /\ metric.ai_score > ai_generated_score_threshold)

\* the key of the last invalid interval of a series, 0 when there is none
LastInvalid(series, hotkey) ==
    LET I == { k \in DOMAIN series : InvalidInterval(series[k], hotkey) }
    IN  IF I = {} THEN 0 ELSE CHOOSE k \in I : \A j \in I : j <= k

\* the intervals of a series after key k
After(series, k) == [j \in { i \in DOMAIN series : i > k } |-> series[j]]

\* C16: the value get_score returns is the value it returns for the intervals
\* after the last invalid allow-listed one alone (an invalid interval sets the
\* score to 0 and clears the baseline), and a series in which no caption holds
\* the signature scores 0.
C16_InvalidIntervalResetsChain ==
    ema.done =>
        /\ ema.st.score =
              get_score(Performance(ema.hotkey, "c1",
                                    After(ema.series, LastInvalid(ema.series, ema.hotkey))))
        /\ (\A k \in DOMAIN ema.series : ~check_signature(ema.series[k], ema.hotkey))
              => ema.st.score = Zero

\* get_score has returned a score other than 0 for a series whose first
\* interval is valid, whose second is invalid and whose third is valid
C16_Witness ==
    /\ ema.done
    /\ Len(ema.series) = 3
    /\ LastInvalid(ema.series, ema.hotkey) = 2
    /\ ema.series[1].platform_name \in allowed_platforms
    /\ ~InvalidInterval(ema.series[1], ema.hotkey)
    /\ ema.st.score # Zero

\* the Performance documents of a hotkey that have an interval and whose most
\* recent metric passes the signature check with an ai_score above the threshold
ValidLatest(perf_coll, hotkey) ==
    { d \in perf_coll :
        /\ d.hotkey = hotkey
        /\ DOMAIN d.platform_metrics_by_interval # {}
        /\ check_signature(latest_metric(d), hotkey)
        /\ latest_metric(d).ai_score > ai_generated_score_threshold }

RECURSIVE LatestLikesAndComments(_)
\* like_count + comment_count of the most recent metrics of a set of documents
LatestLikesAndComments(S) ==
    IF S = {} THEN 0
    ELSE LET d == CHOOSE x \in S : TRUE
         IN  latest_metric(d).like_count + latest_metric(d).comment_count
             + LatestLikesAndComments(S \ {d})

\* the follower count the rate is divided by: that of the last document, in
\* the order of the store, whose most recent metric has one
FollowerCount(perf_coll, hotkey) ==
    LET docs == PerfDocs({ d \in perf_coll : d.hotkey = hotkey })
        I == { i \in 1..Len(docs) :
                 /\ DOMAIN docs[i].platform_metrics_by_interval # {}
                 /\ latest_metric(docs[i]).owner_follower_count > 0 }
    IN  IF I = {} THEN 0
        ELSE latest_metric(docs[CHOOSE i \in I : \A j \in I : j <= i]).owner_follower_count

\* a collection with every series cut to its most recent interval
LatestOnly(perf_coll) ==
    { [d EXCEPT !.platform_metrics_by_interval =
            LET keys == DOMAIN d.platform_metrics_by_interval
            IN  [k \in { j \in keys : \A i \in keys : i <= j } |->
                    d.platform_metrics_by_interval[k]]] : d \in perf_coll }

\* C17: the engagement rates are those of the hotkeys with stake > 0 and no
\* validator permit; a rate is (likes + comments) / valid_posts / follower_count
\* * 100 over the most recent metrics that pass the signature check with an
\* ai_score above the threshold, 0 when valid_posts = 0 or follower_count = 0;
\* the intervals before the most recent one of a series change no rate.
C17_EngagementRate ==
    cyc.outcome = "rates" =>
        LET rates == cyc.active_engagement_rates
        IN  /\ DOMAIN rates = active_hotkeys(metagraph)
            /\ \A hk \in DOMAIN rates :
                  LET valid == ValidLatest(performances, hk)
                      valid_posts == Cardinality(valid)
                      follower_count == FollowerCount(performances, hk)
                  IN  rates[hk] =
                         IF valid_posts = 0 \/ follower_count = 0 THEN Zero
                         ELSE RMul(RDiv(Rat(LatestLikesAndComments(valid), valid_posts),
                                        RInt(follower_count)), RInt(100))
            /\ rates = calculate_miner_engagement_rates(LatestOnly(performances), metagraph)

\* a rate other than 0 was computed for a miner with two documents, one whose
\* most recent metric is valid after an invalid interval, one whose most
\* recent metric is invalid
C17_Witness ==
    /\ cyc.outcome = "rates"
    /\ "h1" \in DOMAIN cyc.active_engagement_rates
    /\ cyc.active_engagement_rates["h1"] # Zero
    /\ Cardinality(ValidLatest(performances, "h1")) = 1
    /\ Cardinality({ d \in performances : d.hotkey = "h1" }) = 2
    /\ \E d \in ValidLatest(performances, "h1") :
          /\ Cardinality(DOMAIN d.platform_metrics_by_interval) = 2
          /\ ~check_signature(d.platform_metrics_by_interval[1], "h1")

SameTriple(s, t) ==
    /\ s.brief_id = t.brief_id
    /\ s.miner_hotkey = t.miner_hotkey
    /\ s.submission_type = t.submission_type

\* C18: no step changes or removes a stored BriefSubmission, and after every
\* step there is at most one record per (brief_id, miner_hotkey,
\* submission_type): a brief commitment processed again, with the same or
\* another URL and whatever R2 answers, leaves the stored record as it is.
C18_OneBriefSubmissionPerTriple ==
    [][ /\ \A s \in brief_submissions : s \in brief_submissions'
        /\ \A s, t \in brief_submissions' : SameTriple(s, t) => s = t ]_vars

\* the brief commitment of h2 was processed again with another URL and another
\* R2 answer than those of the stored record
C18_Witness ==
    /\ lastRefresh.kind = "brief"
    /\ \E s \in brief_submissions :
          /\ s.miner_hotkey = lastRefresh.hotkey
          /\ s.brief_id = BriefCommitMessage_parse(lastRefresh.commit).brief_id
          /\ s.submission_type = BriefCommitMessage_parse(lastRefresh.commit).submission_type
          /\ s.r2_link # BriefCommitMessage_parse(lastRefresh.commit).r2_link
          /\ s.validation_status # lastRefresh.r2

(***************************************************************************)
(* Properties of the commitments                                           *)
(***************************************************************************)
\* C19: parse returns a brief commit exactly for a message of at least three
\* tokens whose second token is sub_1 or sub_2; the brief id is the first
\* token, the kind the second, and the URL everything after the second ':',
\* further ':' included.  The empty message, a message without ':', a message
\* with one ':' and a message with another second token give None.
C19_ParseClassifiesCommit ==
    parse.done =>
        LET c == parse.commit
            r == parse.result
        IN  /\ r.is_brief <=> (Len(c) >= 3 /\ c[2] \in {"sub_1", "sub_2"})
            /\ r.is_brief =>
                  /\ r.brief_id = c[1]
                  /\ r.submission_type = c[2]
                  /\ r.r2_link = SubSeq(c, 3, Len(c))
            /\ ~r.is_brief => r = NoBriefCommit

\* a message with a ':' in its URL was parsed as a brief commit
C19_Witness ==
    /\ parse.done
    /\ Len(parse.commit) = 4
    /\ parse.result.is_brief
    /\ Len(parse.result.r2_link) = 2

\* C20: when the refresh of a peer raised in an iteration, the iteration still
\* runs its metric phase: it does not end without it.
C20_PeerFailureIsolated ==
    (iteration.raised # {} /\ iteration.ended # "running") => iteration.metrics

(***************************************************************************)
(* Properties of the metric phase                                          *)
(***************************************************************************)
\* a pass of the loop of _update_hotkey_performances in which the platform
\* tracker or the AI detector failed
FailedMetricStep ==
    /\ pc = "metrics"
    /\ pc' = "metrics"
    /\ work' # work
    /\ (~lastMetric'.fetched \/ lastMetric'.detector = "failed")

\* C21: when the platform-tracker call or the AI-detector call for a
\* submission fails, no Performance is written (the series of the pair is as
\* it was), and the pass only moves on to the next submission of the hotkey.
C21_FailedCallStoresNothing ==
    [][ FailedMetricStep =>
          /\ performances' = performances
          /\ \E hk \in DOMAIN work : work[hk] # <<>> /\ work' = [work EXCEPT ![hk] = Tail(@)]
      ]_vars

(***************************************************************************)
(* Properties of the metagraph shared by the two loops                     *)
(***************************************************************************)
\* C22: a publish cycle uses one metagraph: the hotkeys the weights are laid
\* out by are the hotkeys the active miners and the engagement rates were
\* computed from, and a non-zero weight goes to the uid of a hotkey the cycle
\* found eligible.
C22_OneMetagraphPerCycle ==
    cyc.outcome = "published" =>
      /\ { cyc.hotkeys[i] : i \in 1..Len(cyc.hotkeys) } = cyc.network_miners
      /\ \A j \in 1..Len(cyc.emitted.uids) :
            cyc.emitted.weights[j] # 0 => EmittedHotkey(j) \in cyc.final_eligible

(***************************************************************************)
(* Specification of the fan-out of one reconcile iteration: the tasks of   *)
(* the gather of update_all_submissions, then the tasks of the gather of   *)
(* update_performance_metrics.  Peers are told apart only by their number: *)
(* waiting counts the _guarded tasks before their "async with sem",        *)
(* resolving those inside it.  A task of update_performance_metrics works  *)
(* through the submissions of one hotkey one after the other.              *)
(***************************************************************************)
InitFanout ==
    /\ \E np \in {1, MaxPeers}, n \in 1..2 :
          fan = [phase |-> "resolve", sem |-> peer_semaphore, waiting |-> np,
                 resolving |-> 0, peak |-> 0,
                 fetch_sem |-> fetch_metrics_semaphore, fetching |-> {},
                 left |-> [t \in 1..MaxFetchTasks |-> n]]
    /\ ema = EmaIdle
    /\ parse = ParseIdle
    /\ EnvIdle /\ StoreIdle /\ ReconIdle /\ PubIdle

\* _guarded: "async with sem" is entered
GuardedEnter ==
    /\ fan.phase = "resolve"
    /\ fan.waiting > 0
    /\ fan.sem > 0
    /\ fan' = [fan EXCEPT !.sem = @ - 1, !.waiting = @ - 1, !.resolving = @ + 1,
                          !.peak = IF fan.resolving + 1 > @ THEN fan.resolving + 1 ELSE @]
    /\ UNCHANGED <<ema, parse, envVars, storeVars, reconVars, pubVars>>

\* _guarded: _refresh_peer_submissions returns or raises, "async with sem" is left
GuardedExit ==
    /\ fan.phase = "resolve"
    /\ fan.resolving > 0
    /\ fan' = [fan EXCEPT !.sem = @ + 1, !.resolving = @ - 1]
    /\ UNCHANGED <<ema, parse, envVars, storeVars, reconVars, pubVars>>

\* the gather of update_all_submissions returns; update_performance_metrics
\* creates a task per hotkey
GatherReturns ==
    /\ fan.phase = "resolve"
    /\ fan.waiting = 0
    /\ fan.resolving = 0
    /\ fan' = [fan EXCEPT !.phase = "metrics"]
    /\ UNCHANGED <<ema, parse, envVars, storeVars, reconVars, pubVars>>

\* the semaphore of _fetch_metrics left out
FetchEnterUngated ==
    /\ fan.phase = "metrics"
    /\ \E t \in DOMAIN fan.left :
          /\ fan.left[t] > 0
          /\ t \notin fan.fetching
          /\ fan' = [fan EXCEPT !.fetch_sem = @ - 1, !.fetching = @ \cup {t}]
    /\ UNCHANGED <<ema, parse, envVars, storeVars, reconVars, pubVars>>

\* _fetch_metrics: "async with self._fetch_metrics_semaphore" is entered and
\* the request is sent
FetchEnter ==
    /\ fan.phase = "metrics"
    /\ fan.fetch_sem > 0
    /\ \E t \in DOMAIN fan.left :
          /\ fan.left[t] > 0
          /\ t \notin fan.fetching
          /\ fan' = [fan EXCEPT !.fetch_sem = @ - 1, !.fetching = @ \cup {t}]
    /\ UNCHANGED <<ema, parse, envVars, storeVars, reconVars, pubVars>>

\* _fetch_metrics: the request is answered, fails or times out, the semaphore
\* is released; the task goes on to its next submission
FetchExit ==
    /\ fan.phase = "metrics"
    /\ \E t \in fan.fetching :
          fan' = [fan EXCEPT !.fetch_sem = @ + 1, !.fetching = @ \ {t},
                             !.left = [@ EXCEPT ![t] = @ - 1]]
    /\ UNCHANGED <<ema, parse, envVars, storeVars, reconVars, pubVars>>

\* the gather of update_performance_metrics returns
FetchesReturn ==
    /\ fan.phase = "metrics"
    /\ \A t \in DOMAIN fan.left : fan.left[t] = 0
    /\ fan' = [fan EXCEPT !.phase = "done"]
    /\ UNCHANGED <<ema, parse, envVars, storeVars, reconVars, pubVars>>

NextFanout ==
    \/ GuardedEnter
    \/ GuardedExit
    \/ GatherReturns
    \/ FetchEnter
    \/ FetchExit
    \/ FetchesReturn

SpecFanout == InitFanout /\ [][NextFanout]_vars

WritesOnlyAt(before, after, key) ==
    \A e \in after : \A k \in DOMAIN e.platform_metrics_by_interval :
        k # key =>
           \E d \in before :
              /\ SameContent(d, e)
              /\ k \in DOMAIN d.platform_metrics_by_interval
              /\ d.platform_metrics_by_interval[k] = e.platform_metrics_by_interval[k]

\* C24: a step stores a metric only in the metric phase, when no peer of the
\* iteration is left to persist, and under the interval key of the phase; the
\* key is set when the phase starts, after the last peer, and stays as it is
\* during the phase; no peer is persisted during the metric phase.
C24_PersistBeforeMetrics ==
    [][ /\ performances' # performances =>
              /\ pc = "metrics"
              /\ peers = {}
              /\ interval_key' = interval_key
              /\ WritesOnlyAt(performances, performances', interval_key)
        /\ interval_key' # interval_key =>
              /\ pc = "submissions" /\ pc' = "metrics"
              /\ peers = {}
        /\ (peers' # peers \/ brief_submissions' # brief_submissions
              \/ lastRefresh' # lastRefresh) => pc # "metrics"
      ]_vars

\* the metric phase of a second iteration stored a second interval for a
\* content, after the gist peer and the brief peer were persisted
C24_Witness ==
    /\ pc = "metrics"
    /\ iteration.n = 2
    /\ lastMetric.fetched
    /\ brief_submissions # {}
    /\ \E e \in performances :
          /\ interval_key \in DOMAIN e.platform_metrics_by_interval
          /\ Cardinality(DOMAIN e.platform_metrics_by_interval) = 2

(***************************************************************************)
(* The reconcile loop over commitments that are no gist pointer and no     *)
(* brief commit                                                            *)
(***************************************************************************)
\* "a:b:c": three tokens, the middle one neither sub_1 nor sub_2
ThreeTokenCommit == <<"a", "b", "c">>
\* a commitment without ':'
NoColonCommit == <<"alice">>

EnvInvalid ==
    [metagraphs |-> {Metagraph4},
     sync |-> {TRUE, FALSE},
     commitments |-> { [hk \in {"h1", "h2"} |-> IF hk = "h1" THEN c ELSE BriefCommit] :
                          c \in {GistCommit, ThreeTokenCommit, NoColonCommit} },
     gists |-> {GistFails, GistText(<<LineA>>)},
     tracker |-> {TrackerAnswer(TRUE, 1000, 2, 1, 100)},
     detector |-> {DetectorAnswer(9)},
     r2 |-> {"valid"},
     store |-> {TRUE},
     set_weights |-> {TRUE, FALSE}]

InitInvalid == InitValidator /\ env = EnvInvalid

SpecInvalid == InitInvalid /\ [][Next]_vars

\* a commitment that is neither a gist pointer (one ':') nor a brief commit
InvalidCommitment(commit) ==
    /\ commit # <<>>
    /\ Len(commit) # 2
    /\ ~BriefCommitMessage_parse(commit).is_brief

\* C25: a peer whose commitment is invalid is not resolved: no gist is
\* fetched for it, no content id of it becomes active, and the submissions
\* persisted for its hotkey stay as they were.
C25_InvalidCommitmentIgnored ==
    InvalidCommitment(lastRefresh.commit) =>
       /\ lastRefresh.kind # "gist"
       /\ ContentIds(update_submissions([ok |-> lastRefresh.ok, lines |-> lastRefresh.lines]))
             \cap active_content_ids = {}
       /\ PersistedSubs(submissions, lastRefresh.hotkey) = lastRefresh.before

(***************************************************************************)
(* The reconcile loop over a brief whose top 10 are selected               *)
(***************************************************************************)
\* the revision of a miner for brief b1
RevisionCommit == <<"b1", "sub_2", "https", "//r2/x2.mp4">>

\* h2 commits a first submission or a revision, h3 a revision
EnvRevision ==
    [metagraphs |-> {Metagraph4},
     sync |-> {TRUE, FALSE},
     commitments |-> { [hk \in {"h1", "h2", "h3"} |->
                           IF hk = "h1" THEN GistCommit
                           ELSE IF hk = "h2" THEN c ELSE RevisionCommit] :
                          c \in {BriefCommit, RevisionCommit} },
     gists |-> {GistText(<<LineA>>)},
     tracker |-> {TrackerAnswer(TRUE, 1000, 2, 1, 100)},
     detector |-> {DetectorAnswer(9)},
     r2 |-> {"valid", "invalid"},
     store |-> {TRUE},
     set_weights |-> {TRUE, FALSE}]

\* the validator after construction, over a store whose brief b1 has h2 in its
\* top 10 and is still open for first submissions or in its top-10 phase
InitRevision ==
    /\ ema = EmaIdle
    /\ parse = ParseIdle
    /\ fan = FanIdle
    /\ metagraph = Metagraph4
    /\ env = EnvRevision
    /\ submissions = <<>>
    /\ performances = {}
    /\ \E status \in {"active", "selecting_top10"} :
          briefs = {Brief("b1", status, 0, {"h2"}, {})}
    /\ brief_submissions = {}
    /\ pc = "idle"
    /\ clock = 0
    /\ interval_key = 0
    /\ active_content_ids = {}
    /\ peers = {}
    /\ work = <<>>
    /\ warm_up = TRUE
    /\ publish_tasks = 0
    /\ lastRefresh = NoRefresh
    /\ lastMetric = NoFetch
    /\ aiCalls = NoAiCalls
    /\ iteration = NoIteration
    /\ snapshot = NoSnapshot
    /\ PubIdle

SpecRevision == InitRevision /\ [][Next]_vars

\* the miner is in the top 10 of the brief and the brief is in its top-10
\* selection phase
AuthorizedRevision(hotkey, brief_id) ==
    \E b \in briefs : /\ b.brief_id = brief_id
                      /\ hotkey \in b.top_10_miners
                      /\ b.status = "selecting_top10"

\* C26: after a sub_2 commit of a miner was processed, a sub_2 record of the
\* miner for the brief is stored exactly when the miner is in the top 10 of
\* the brief and the brief is in its top-10 selection phase.
C26_RevisionIffAuthorized ==
    LET bc == BriefCommitMessage_parse(lastRefresh.commit)
    IN  (lastRefresh.kind = "brief" /\ bc.submission_type = "sub_2") =>
           ((\E s \in brief_submissions : /\ s.brief_id = bc.brief_id
                                          /\ s.miner_hotkey = lastRefresh.hotkey
                                          /\ s.submission_type = "sub_2")
            <=> AuthorizedRevision(lastRefresh.hotkey, bc.brief_id))

(***************************************************************************)
(* Specification of _calculate_brief_scores alone: miner h1 has a          *)
(* submission to brief b1, whose top 10 it is in, and may have one to      *)
(* brief b2; each has any validation status and any quality score.         *)
(***************************************************************************)
\* quality scores of the stored submissions: none, 0.0, 0.5 and 1.0
QualityScores == {NoQuality, 0, 5, 10}

StoredBriefSubmissions(brief_id) ==
    { [BriefSubmission(brief_id, "h1", "sub_1", <<"https", "//r2/x.mp4">>, status, at)
          EXCEPT !.quality_score = q] :
        status \in {"valid", "pending", "invalid"}, at \in {1, 2 * TicksPerHour},
        q \in QualityScores }

InitBriefScores ==
    /\ briefs = {Brief("b1", "active", 0, {"h1"}, {}), Brief("b2", "active", 0, {}, {})}
    /\ \E s1 \in StoredBriefSubmissions("b1") :
          \/ brief_submissions = {s1}
          \/ \E s2 \in StoredBriefSubmissions("b2") : brief_submissions = {s1, s2}
    /\ submissions = <<>>
    /\ performances = {}
    /\ EnvIdle
    /\ ema = EmaIdle
    /\ parse = ParseIdle
    /\ fan = FanIdle
    /\ ReconIdle /\ PubIdle

\* the call of _calculate_brief_scores, two hours after the briefs were created
CalculateBriefScores ==
    /\ cyc.outcome = "none"
    /\ cyc' = [NoCycle EXCEPT !.outcome = "brief_scores",
                              !.now = 2 * TicksPerHour,
                              !.active_brief_scores =
                                  calculate_brief_scores(briefs, brief_submissions,
                                                         2 * TicksPerHour)]
    /\ UNCHANGED <<envVars, ema, parse, fan, storeVars, reconVars, ppc, set_weights_calls,
                   chain_weights, cycles>>

NextBriefScores == CalculateBriefScores

SpecBriefScores == InitBriefScores /\ [][NextBriefScores]_vars

\* the brief of a stored submission
BriefOf(sub) == CHOOSE b \in briefs : b.brief_id = sub.brief_id

\* (speed + selection) * quality, quality being 1 only when none is set
ScoreTimesQuality(sub) ==
    RMul(RAdd(calculate_speed_score(sub, BriefOf(sub)),
              calculate_selection_score(sub, BriefOf(sub))),
         IF sub.quality_score = NoQuality THEN RInt(1) ELSE Rat(sub.quality_score, 10))

\* C27: the total score of a valid submission is (speed + selection) * quality
\* for every quality, 1 standing in only for a quality that is not set (so a
\* quality of 0 gives 0); a submission that is not valid has total 0 and is
\* left out of the mean of its miner.
C27_TotalIsScoreTimesQuality ==
    cyc.outcome = "brief_scores" =>
        LET scores == cyc.active_brief_scores
            valid == { s \in brief_submissions : s.validation_status = "valid" }
            total == [s \in valid |-> ScoreTimesQuality(s)]
        IN  /\ \A s \in brief_submissions :
                  calculate_total_score(s, BriefOf(s)) =
                     IF s \in valid THEN ScoreTimesQuality(s) ELSE Zero
            /\ DOMAIN scores = { s.miner_hotkey : s \in valid }
            /\ \A hk \in DOMAIN scores :
                  LET mine == { s \in valid : s.miner_hotkey = hk }
                  IN  scores[hk] = RDiv(SumOver(mine, total), RInt(Cardinality(mine)))

(***************************************************************************)
(* Properties of the set of active content ids                             *)
(***************************************************************************)
\* C28: the set of active content ids is empty whenever an iteration is about
\* to start, also after an iteration that ended with an exception.
C28_ActiveIdsEphemeral ==
    pc = "idle" => active_content_ids = {}

(***************************************************************************)
(* Properties of the uids that are given weight                            *)
(***************************************************************************)
\* the metagraph the published vector was laid out by
EmitMetagraph == CHOOSE mg \in env.metagraphs : mg.hotkeys = cyc.hotkeys

\* C29: a published vector gives no positive weight to a uid that holds a
\* validator permit or has no stake, on whichever path its hotkey became
\* eligible.
C29_NoWeightForValidators ==
    cyc.outcome = "published" =>
        \A j \in 1..Len(cyc.emitted.uids) :
            cyc.emitted.weights[j] > 0 =>
               /\ EmitMetagraph.S[cyc.emitted.uids[j] + 1] > 0
               /\ ~EmitMetagraph.validator_permit[cyc.emitted.uids[j] + 1]

(***************************************************************************)
(* Both loops over a gist that loses a record between two iterations       *)
(***************************************************************************)
EnvChurn ==
    [metagraphs |-> {Metagraph4},
     sync |-> {TRUE, FALSE},
     commitments |-> { [hk \in {"h1", "h2"} |-> IF hk = "h1" THEN GistCommit ELSE BriefCommit] },
     gists |-> {GistText(<<LineA, LineB>>), GistText(<<LineA>>)},
     tracker |-> {TrackerAnswer(TRUE, 1000, 2, 1, 100), TrackerAnswer(TRUE, 1000, 5, 1, 100)},
     detector |-> {DetectorAnswer(9)},
     r2 |-> {"valid"},
     store |-> {TRUE},
     set_weights |-> {TRUE}]

InitChurn == InitValidator /\ env = EnvChurn

NextChurn ==
    \/ Next
    \/ PublishCompute
    \/ PublishEmit
    \/ PublishSleep

SpecChurn == InitChurn /\ [][NextChurn]_vars

\* the Performance documents of the contents in the submission list persisted
\* for their hotkey
ListedPerformances(perf_coll, subs_coll) ==
    { d \in perf_coll : d.content_id \in ContentIds(PersistedSubs(subs_coll, d.hotkey)) }

\* C30: the engagement rate a publish cycle computes for a miner is the rate
\* of the Performance documents of the contents in the miner's persisted
\* submission list: documents of contents that are no longer in the list add
\* no likes, comments, valid posts or follower count.
C30_RateFromListedContent ==
    [][ (ppc = "idle" /\ ppc' # "idle" /\ cyc'.outcome # "failed") =>
           \A hk \in DOMAIN cyc'.active_engagement_rates :
              cyc'.active_engagement_rates[hk] =
                 engagement_rate(ListedPerformances(performances, submissions), hk)
      ]_vars

====
